---- MODULE Spec2Model ----
(***************************************************************************)
(* Model of the Go documentation generator's text-scanning front end and   *)
(* repository indexer (src/go_template/parser.py, repository.py).          *)
(*                                                                         *)
(* Texts are sequences of one-character strings.  Python indices are       *)
(* 0-based; every index below is the Python index plus one, so "i <       *)
(* length" in the source reads "i <= Len(source)" here and "return length" *)
(* reads "Len(source) + 1".                                                *)
(*                                                                         *)
(* Two specifications share the module:                                    *)
(*   SpecScrub  the two masking passes applied to an arbitrary short text  *)
(*   Spec       build_repository_index over a small file tree              *)
(***************************************************************************)
EXTENDS Naturals, Sequences, FiniteSets

VARIABLES
    \* ---- scrubber session (SpecScrub)
    src_text,       \* the text handed to the first masking pass
    prev_text,      \* the argument of the last masking pass
    cur_text,       \* the result of the last masking pass
    ops,            \* the passes applied so far, in order
    \* ---- build_repository_index (Spec)
    tree,           \* the file tree under module_root: path -> file
    pc,             \* position inside build_repository_index
    pending,        \* paths the tree walk has not yielded yet
    functions,
    functions_by_file,
    functions_by_dir_name,
    functions_by_import_path_name,
    functions_by_rel_path_name,
    file_alias_maps,
    registry,
    rel_paths_present,
    call_edges,
    reverse_edges,
    warnings,       \* records of logging.warning, in order
    relationships,  \* the two summaries attached to each listed function
    \* ---- parsing one file (SpecParse)
    go_decls,       \* the top-level declarations of the file, in order
    go_source,      \* the text of the file
    parse_result,   \* the outcome of parse_functions, once called
    decl_result,    \* the outcome of extract_declarations, once called
    \* ---- generate_documentation (SpecGen)
    requested,      \* go_file, the path the documentation is requested for
    gen_pc,         \* position inside generate_documentation
    raised,         \* the exception that left generate_documentation, "" for none
    render_inputs,  \* what _prepare_render_inputs has gathered so far
    error_log,      \* records of logging.error, in order
    output,         \* the documents written, by path
    \* ---- next_function_segment (SpecIterate)
    doc,            \* the lines of the template file
    it_state,       \* the IteratorState the caller passes back
    it_pc,          \* "call", "edit" or "exhausted"
    returned,       \* the blocks returned so far, in order
    \* ---- _summarize_relations (SpecSummary)
    rel_calls,      \* the labels of the functions called
    rel_callers,    \* the labels of the calling functions
    rel_summary,    \* the summary, once it is built
    \* ---- parse_imports and _build_alias_maps (SpecImports)
    import_decls,   \* the import declarations of the file, in order
    import_module,  \* module_path, empty when there is none
    parsed_imports, \* the outcome of parse_imports, once called
    import_maps     \* the outcome of _build_alias_maps, once called

scrub_vars == <<src_text, prev_text, cur_text, ops>>
index_vars == <<tree, pc, pending, functions, functions_by_file,
                functions_by_dir_name, functions_by_import_path_name,
                functions_by_rel_path_name, file_alias_maps, registry,
                rel_paths_present, call_edges, reverse_edges, warnings,
                relationships>>
parse_vars == <<go_decls, go_source, parse_result, decl_result>>
gen_vars == <<requested, gen_pc, raised, render_inputs, error_log, output>>
iter_vars == <<doc, it_state, it_pc, returned>>
sum_vars == <<rel_calls, rel_callers, rel_summary>>
imp_vars == <<import_decls, import_module, parsed_imports, import_maps>>
vars == <<scrub_vars, index_vars, parse_vars, gen_vars, iter_vars, sum_vars, imp_vars>>

(***************************************************************************)
(* Characters                                                              *)
(***************************************************************************)
NL == "\n"
BS == "\\"
DQ == "\""
SQ == "'"
\* the raw-string delimiter (backquote, chr(96)); SANY cannot lex that character
\* inside a string, so it is written out
BT == "BACKQUOTE"
SP == " "

Letters ==
    {"a","b","c","d","e","f","g","h","i","j","k","l","m",
     "n","o","p","q","r","s","t","u","v","w","x","y","z",
     "A","B","C","D","E","F","G","H","I","J","K","L","M",
     "N","O","P","Q","R","S","T","U","V","W","X","Y","Z"}
Digits == {"0","1","2","3","4","5","6","7","8","9"}

\* [A-Za-z_] and [A-Za-z0-9_] of CALL_PATTERN / SELECTOR_CALL_PATTERN
IsIdentStart(ch) == ch \in Letters \cup {"_"}
IsWordChar(ch) == ch \in Letters \cup Digits \cup {"_"}
\* \s of the patterns
IsSpace(ch) == ch \in {" ", "\t", "\n", "\r", "\f"}

(***************************************************************************)
(* parser.py: _skip_string, _skip_raw_string                               *)
(***************************************************************************)
RECURSIVE skip_string_loop(_, _, _)
skip_string_loop(source, i, quote) ==
    IF i > Len(source) THEN Len(source) + 1
    ELSE IF source[i] = BS THEN skip_string_loop(source, i + 2, quote)
    ELSE IF source[i] = quote THEN i + 1
    ELSE skip_string_loop(source, i + 1, quote)

_skip_string(source, start, quote) == skip_string_loop(source, start + 1, quote)

RECURSIVE skip_raw_string_loop(_, _)
skip_raw_string_loop(source, i) ==
    IF i > Len(source) THEN Len(source) + 1
    ELSE IF source[i] = BT THEN i + 1
    ELSE skip_raw_string_loop(source, i + 1)

_skip_raw_string(source, start) == skip_raw_string_loop(source, start + 1)

(***************************************************************************)
(* parser.py: strip_comments_preserve_whitespace                           *)
(***************************************************************************)
\* while j < length and source[j] != "\n": result[j] = " "; j += 1
RECURSIVE line_comment_loop(_, _, _)
line_comment_loop(source, result, j) ==
    IF j <= Len(source) /\ source[j] # NL
    THEN line_comment_loop(source, [result EXCEPT ![j] = SP], j + 1)
    ELSE [result |-> result, j |-> j]

\* the same assignment without the newline test
block_comment_mask_all(source, result, j) ==
    [result EXCEPT ![j] = SP]

\* the contents of a block comment are left as they are
block_comment_keep_contents(source, result, j) ==
    result

\* result[j] = " " if source[j] != "\n" else "\n"
block_comment_char(source, result, j) ==
    [result EXCEPT ![j] = IF source[j] # NL THEN SP ELSE NL]

\* while j < length - 1: ...
RECURSIVE block_comment_loop(_, _, _)
block_comment_loop(source, result, j) ==
    IF j < Len(source)
    THEN IF source[j] = "*" /\ source[j + 1] = "/"
         THEN [result |-> [result EXCEPT ![j] = SP, ![j + 1] = SP], j |-> j + 2]
         ELSE block_comment_loop(source, block_comment_char(source, result, j), j + 1)
    ELSE [result |-> result, j |-> j]

\* the first offset from i on that holds one of `chars`, Len(source) + 1 when
\* there is none: where a loop that steps by one over every other character
\* arrives next
first_of(source, i, chars) ==
    LET hits == {j \in i..Len(source) : source[j] \in chars}
    IN  IF hits = {} THEN Len(source) + 1 ELSE CHOOSE j \in hits : \A k \in hits : j <= k

RECURSIVE strip_loop(_, _, _)
strip_loop(source, result, i) ==
    IF i > Len(source) THEN result
    ELSE LET ch == source[i]
             nxt == IF i + 1 <= Len(source) THEN source[i + 1] ELSE ""
         IN  IF ch = DQ THEN strip_loop(source, result, _skip_string(source, i, DQ))
             ELSE IF ch = SQ THEN strip_loop(source, result, _skip_string(source, i, SQ))
             ELSE IF ch = BT THEN strip_loop(source, result, _skip_raw_string(source, i))
             ELSE IF ch = "/" /\ nxt = "/"
                  THEN LET r == line_comment_loop(source, result, i)
                       IN  strip_loop(source, r.result, r.j)
             ELSE IF ch = "/" /\ nxt = "*"
                  THEN LET r == block_comment_loop(
                                    source, [result EXCEPT ![i] = SP, ![i + 1] = SP], i + 2)
                       IN  strip_loop(source, r.result, r.j)
             ELSE strip_loop(source, result, first_of(source, i + 1, {DQ, SQ, BT, "/"}))

strip_comments_preserve_whitespace(source) == strip_loop(source, source, 1)

(***************************************************************************)
(* repository.py (and, identically, generator.py): _mask_string_literals   *)
(***************************************************************************)
RECURSIVE mask_quoted_loop(_, _, _, _)
mask_quoted_loop(chars, source, i, quote) ==
    IF i > Len(source) THEN [chars |-> chars, i |-> Len(source) + 1]
    ELSE LET ch == source[i]
             masked == [chars EXCEPT ![i] = SP]
         IN  IF ch = BS
             THEN mask_quoted_loop(
                      IF i + 1 <= Len(source) THEN [masked EXCEPT ![i + 1] = SP] ELSE masked,
                      source, i + 2, quote)
             ELSE IF ch = quote THEN [chars |-> masked, i |-> i + 1]
             ELSE mask_quoted_loop(masked, source, i + 1, quote)

_mask_quoted_string(chars, source, start, quote) ==
    mask_quoted_loop(chars, source, start + 1, quote)

RECURSIVE mask_raw_loop(_, _, _)
mask_raw_loop(chars, source, i) ==
    IF i > Len(source) THEN [chars |-> chars, i |-> Len(source) + 1]
    ELSE IF source[i] = BT THEN [chars |-> chars, i |-> i + 1]
    ELSE mask_raw_loop([chars EXCEPT ![i] = IF source[i] # NL THEN SP ELSE NL],
                       source, i + 1)

_mask_raw_string_literal(chars, source, start) == mask_raw_loop(chars, source, start + 1)

RECURSIVE mask_loop(_, _, _)
mask_loop(source, chars, i) ==
    IF i > Len(source) THEN chars
    ELSE LET ch == source[i]
         IN  IF ch = DQ
             THEN LET r == _mask_quoted_string(chars, source, i, DQ)
                  IN  mask_loop(source, r.chars, r.i)
             ELSE IF ch = SQ
             THEN LET r == _mask_quoted_string(chars, source, i, SQ)
                  IN  mask_loop(source, r.chars, r.i)
             ELSE IF ch = BT
             THEN LET r == _mask_raw_string_literal(chars, source, i)
                  IN  mask_loop(source, r.chars, r.i)
             ELSE mask_loop(source, chars, i + 1)

\* the literals are left as they are
mask_nothing(source) == source

_mask_string_literals(source) == mask_loop(source, source, 1)

(***************************************************************************)
(* repository.py: call patterns                                            *)
(***************************************************************************)
GO_KEYWORDS ==
    {<<"b","r","e","a","k">>, <<"c","a","s","e">>, <<"c","h","a","n">>,
     <<"c","o","n","s","t">>, <<"c","o","n","t","i","n","u","e">>,
     <<"d","e","f","a","u","l","t">>, <<"d","e","f","e","r">>, <<"e","l","s","e">>,
     <<"f","a","l","l","t","h","r","o","u","g","h">>, <<"f","o","r">>,
     <<"f","u","n","c">>, <<"g","o">>, <<"g","o","t","o">>, <<"i","f">>,
     <<"i","m","p","o","r","t">>, <<"i","n","t","e","r","f","a","c","e">>,
     <<"m","a","p">>, <<"p","a","c","k","a","g","e">>, <<"r","a","n","g","e">>,
     <<"r","e","t","u","r","n">>, <<"s","e","l","e","c","t">>,
     <<"s","t","r","u","c","t">>, <<"s","w","i","t","c","h">>, <<"t","y","p","e">>,
     <<"v","a","r">>}

GO_BUILTINS ==
    {<<"a","p","p","e","n","d">>, <<"c","a","p">>, <<"c","l","o","s","e">>,
     <<"c","o","m","p","l","e","x">>, <<"c","o","p","y">>, <<"d","e","l","e","t","e">>,
     <<"i","m","a","g">>, <<"l","e","n">>, <<"m","a","k","e">>, <<"n","e","w">>,
     <<"p","a","n","i","c">>, <<"p","r","i","n","t">>, <<"p","r","i","n","t","l","n">>,
     <<"r","e","a","l">>, <<"r","e","c","o","v","e","r">>}

\* the last offset of the run of [A-Za-z0-9_] that starts at s
RECURSIVE WordEnd(_, _)
WordEnd(body, s) ==
    IF s + 1 <= Len(body) /\ IsWordChar(body[s + 1]) THEN WordEnd(body, s + 1) ELSE s

\* \s* : the first offset at or after k that holds no white space
RECURSIVE SkipSpaces(_, _)
SkipSpaces(body, k) ==
    IF k <= Len(body) /\ IsSpace(body[k]) THEN SkipSpaces(body, k + 1) ELSE k

\* \b followed by [A-Za-z_]: a word starts at s
WordStartsAt(body, s) ==
    /\ IsIdentStart(body[s])
    /\ s = 1 \/ ~IsWordChar(body[s - 1])

FollowedByParen(body, e) ==
    LET k == SkipSpaces(body, e + 1) IN k <= Len(body) /\ body[k] = "("

\* CALL_PATTERN = \b([A-Za-z_][A-Za-z0-9_]*)\s*\( : the offsets where a match
\* starts.  The group is greedy and must be followed by \s*\(, so it is the
\* whole word; matches cannot overlap, so finditer yields every one of them.
CALL_PATTERN(body) ==
    {s \in 1..Len(body) : WordStartsAt(body, s) /\ FollowedByParen(body, WordEnd(body, s))}

\* SELECTOR_CALL_PATTERN = \b(word)\.(word)\s*\( : <<start of group 1, start of group 2>>
SELECTOR_CALL_PATTERN(body) ==
    {<<s, WordEnd(body, s) + 2>> : s \in
        {s \in 1..Len(body) :
            /\ WordStartsAt(body, s)
            /\ LET d == WordEnd(body, s) + 1
               IN  /\ d + 1 <= Len(body)
                   /\ body[d] = "."
                   /\ IsIdentStart(body[d + 1])
                   /\ FollowedByParen(body, WordEnd(body, d + 1))}}

_find_simple_calls(body) ==
    {SubSeq(body, s, WordEnd(body, s)) : s \in
        {s \in CALL_PATTERN(body) :
            /\ ~(s > 1 /\ body[s - 1] = ".")
            /\ SubSeq(body, s, WordEnd(body, s)) \notin GO_KEYWORDS \cup GO_BUILTINS}}

\* alias_map is a function alias -> import path; the result is a set of
\* <<import path, called name>>
_find_selector_calls(body, alias_map) ==
    IF DOMAIN alias_map = {} THEN {}
    ELSE {<<alias_map[SubSeq(body, m[1], m[2] - 2)], SubSeq(body, m[2], WordEnd(body, m[2]))>> :
            m \in {m \in SELECTOR_CALL_PATTERN(body) :
                      SubSeq(body, m[1], m[2] - 2) \in DOMAIN alias_map}}

(***************************************************************************)
(* Python dict / defaultdict as a function on the keys present             *)
(***************************************************************************)
EmptyDict == <<>>
DictGet(d, k, default) == IF k \in DOMAIN d THEN d[k] ELSE default
DictPut(d, k, v) == [x \in DOMAIN d \cup {k} |-> IF x = k THEN v ELSE d[x]]

Range(seq) == {seq[i] : i \in 1..Len(seq)}

(***************************************************************************)
(* parser.py: extract_balanced, _extract_receiver_type, parse_functions    *)
(***************************************************************************)
ValueError == [ok |-> FALSE]

RECURSIVE extract_balanced_loop(_, _, _, _, _, _)
extract_balanced_loop(source, start, open_char, close_char, depth, i) ==
    IF i > Len(source) THEN ValueError
    ELSE LET ch == source[i]
         IN  IF ch = BT
             THEN extract_balanced_loop(source, start, open_char, close_char, depth,
                                        (_skip_raw_string(source, i) - 1) + 1)
             ELSE IF ch \in {DQ, SQ}
             THEN extract_balanced_loop(source, start, open_char, close_char, depth,
                                        (_skip_string(source, i, ch) - 1) + 1)
             ELSE IF ch = open_char
             THEN extract_balanced_loop(source, start, open_char, close_char, depth + 1, i + 1)
             ELSE IF ch = close_char
             THEN IF depth = 0
                  THEN [ok |-> TRUE, segment |-> SubSeq(source, start, i), next |-> i + 1]
                  ELSE extract_balanced_loop(source, start, open_char, close_char,
                                             depth - 1, i + 1)
             ELSE extract_balanced_loop(source, start, open_char, close_char, depth, i + 1)

extract_balanced(source, start, open_char, close_char) ==
    IF start > Len(source) \/ source[start] # open_char THEN ValueError
    ELSE extract_balanced_loop(source, start, open_char, close_char, 0, start + 1)

\* None and "" both read "" here: the only uses are truth tests and "or ''"
NoReceiverType == ""

\* `parts` is inner.split(): the white-space separated words between the
\* parentheses of the receiver clause (<<>> when the declaration has none)
_extract_receiver_type(parts) ==
    IF Len(parts) >= 2 THEN parts[Len(parts)] ELSE NoReceiverType

(***************************************************************************)
(* A file is given by its import entries and its top-level func            *)
(* declarations in source order.  A declaration is its name, the words of  *)
(* its receiver clause and body_src, the text from the opening brace of    *)
(* its body on; _parse_single_func extracts the body from it with          *)
(* extract_balanced, which raises on an unbalanced brace.                  *)
(***************************************************************************)
\* body_text = "" ; if source[idx] == "{": body_segment, idx = extract_balanced(...)
_parse_single_func(decl) ==
    LET body == IF decl.body_src # <<>> /\ decl.body_src[1] = "{"
                THEN extract_balanced(decl.body_src, 1, "{", "}")
                ELSE [ok |-> TRUE, segment |-> <<>>, next |-> 1]
    IN  IF ~body.ok THEN ValueError
        ELSE [ok |-> TRUE,
              func |-> [receiver |-> decl.receiver,
                        receiver_type |-> _extract_receiver_type(decl.receiver),
                        name |-> decl.name,
                        body |-> body.segment]]

\* the error is swallowed: the declarations parsed before the failing one are returned
parse_functions_keep_parsed(decls) ==
    LET good == {n \in 0..Len(decls) : \A i \in 1..n : _parse_single_func(decls[i]).ok}
        last == CHOOSE n \in good : \A m \in good : m <= n
    IN  [ok |-> TRUE, funcs |-> [i \in 1..last |-> _parse_single_func(decls[i]).func]]

\* the list of func_info of a file, or ValueError as soon as one declaration raises
parse_functions(decls) ==
    IF \E i \in 1..Len(decls) : ~_parse_single_func(decls[i]).ok THEN ValueError
    ELSE [ok |-> TRUE, funcs |-> [i \in 1..Len(decls) |-> _parse_single_func(decls[i]).func]]

(***************************************************************************)
(* Python str methods on texts                                             *)
(***************************************************************************)
\* str.strip(), str.lstrip(), str.rstrip()
RECURSIVE LStrip(_)
LStrip(text) ==
    IF text # <<>> /\ IsSpace(text[1]) THEN LStrip(Tail(text)) ELSE text

RECURSIVE RStrip(_)
RStrip(text) ==
    IF text # <<>> /\ IsSpace(text[Len(text)])
    THEN RStrip(SubSeq(text, 1, Len(text) - 1)) ELSE text

Strip(text) == RStrip(LStrip(text))

\* text[1:-1]
Inner(text) == SubSeq(text, 2, Len(text) - 1)

StartsWith(text, prefix, i) ==
    /\ i + Len(prefix) - 1 <= Len(text)
    /\ SubSeq(text, i, i + Len(prefix) - 1) = prefix

\* offset of the first occurrence of `sep` in `text`, 0 when there is none
Find(text, sep) ==
    LET hits == {i \in 1..Len(text) : StartsWith(text, sep, i)}
    IN  IF hits = {} THEN 0 ELSE CHOOSE i \in hits : \A j \in hits : i <= j

\* str.split(sep) for a one-character separator
RECURSIVE SplitOn(_, _)
SplitOn(text, sep) ==
    LET at == Find(text, <<sep>>)
    IN  IF at = 0 THEN <<text>>
        ELSE <<SubSeq(text, 1, at - 1)>> \o SplitOn(SubSeq(text, at + 1, Len(text)), sep)

\* str.splitlines(): no empty last line after a final newline
SplitLines(text) ==
    IF text = <<>> THEN <<>>
    ELSE IF text[Len(text)] = NL THEN SplitOn(SubSeq(text, 1, Len(text) - 1), NL)
    ELSE SplitOn(text, NL)

\* str.split(): the white-space separated words
RECURSIVE Words(_)
Words(text) ==
    LET rest == LStrip(text)
        spaces == {i \in 1..Len(rest) : IsSpace(rest[i])}
        stop == IF spaces = {} THEN Len(rest) + 1
                ELSE CHOOSE i \in spaces : \A j \in spaces : i <= j
    IN  IF rest = <<>> THEN <<>>
        ELSE <<SubSeq(rest, 1, stop - 1)>> \o Words(SubSeq(rest, stop, Len(rest)))

(***************************************************************************)
(* parser.py: _parse_single_func and parse_functions on the text of a      *)
(* file (offsets are 1-based: offset i here is index i - 1 in the code)    *)
(***************************************************************************)
_is_identifier_char(ch) == IsWordChar(ch)

RECURSIVE _skip_whitespace(_, _)
_skip_whitespace(source, idx) ==
    IF idx <= Len(source) /\ source[idx] \in {" ", "\t", "\r", "\n"}
    THEN _skip_whitespace(source, idx + 1) ELSE idx

\* while idx < length and (source[idx].isalnum() or source[idx] == "_")
RECURSIVE name_end(_, _)
name_end(source, idx) ==
    IF idx <= Len(source) /\ _is_identifier_char(source[idx])
    THEN name_end(source, idx + 1) ELSE idx

\* None reads <<>>
_extract_receiver_type_src(receiver) ==
    IF receiver = <<>> THEN <<>>
    ELSE LET content == Strip(receiver)
         IN  IF ~(content[1] = "(" /\ content[Len(content)] = ")") THEN <<>>
             ELSE LET inner == Strip(Inner(content))
                      parts == Words(inner)
                  IN  IF inner = <<>> THEN <<>>
                      ELSE IF Len(parts) >= 2 THEN parts[Len(parts)]
                      ELSE <<>>

\* an optional balanced group opened by open_char at idx (lines 300-303, 313-316)
optional_group(source, idx, open_char, close_char) ==
    IF idx <= Len(source) /\ source[idx] = open_char
    THEN LET seg == extract_balanced(source, idx, open_char, close_char)
         IN  IF ~seg.ok THEN ValueError
             ELSE [ok |-> TRUE, text |-> Strip(seg.segment),
                   idx |-> _skip_whitespace(source, seg.next)]
    ELSE [ok |-> TRUE, text |-> <<>>, idx |-> idx]

\* lines 331-339: the result text up to a brace, a newline or a comment
RECURSIVE return_buffer_end(_, _)
return_buffer_end(source, idx) ==
    IF idx > Len(source) THEN idx
    ELSE IF source[idx] \in {"{", NL} THEN idx
    ELSE IF source[idx] = "/" /\ idx + 1 <= Len(source) /\ source[idx + 1] \in {"/", "*"}
         THEN idx
    ELSE return_buffer_end(source, idx + 1)

\* lines 324-341
parse_returns(source, idx0) ==
    LET idx == _skip_whitespace(source, idx0)
    IN  IF idx <= Len(source) /\ source[idx] = "("
        THEN optional_group(source, idx, "(", ")")
        ELSE LET stop == return_buffer_end(source, idx)
             IN  [ok |-> TRUE, text |-> Strip(SubSeq(source, idx, stop - 1)),
                  idx |-> _skip_whitespace(source, stop)]

\* while idx < length and source[idx] != "{": idx += 1
RECURSIVE body_start(_, _)
body_start(source, idx) ==
    IF idx <= Len(source) /\ source[idx] # "{" THEN body_start(source, idx + 1) ELSE idx

\* lines 343-348
parse_body(source, idx0) ==
    LET idx == body_start(source, idx0)
    IN  IF idx <= Len(source) /\ source[idx] = "{"
        THEN LET seg == extract_balanced(source, idx, "{", "}")
             IN  IF ~seg.ok THEN ValueError
                 ELSE [ok |-> TRUE, text |-> seg.segment, idx |-> seg.next]
        ELSE [ok |-> TRUE, text |-> <<>>, idx |-> idx]

_parse_single_func_src(source, start_idx) ==
    LET receiver == optional_group(source, _skip_whitespace(source, start_idx + 4), "(", ")")
    IN  IF ~receiver.ok THEN ValueError ELSE
    LET name_stop == name_end(source, receiver.idx)
        name == SubSeq(source, receiver.idx, name_stop - 1)
        generics == optional_group(source, _skip_whitespace(source, name_stop), "[", "]")
    IN  IF ~generics.ok THEN ValueError ELSE
        IF generics.idx > Len(source) \/ source[generics.idx] # "(" THEN ValueError ELSE
    LET params_segment == extract_balanced(source, generics.idx, "(", ")")
    IN  IF ~params_segment.ok THEN ValueError ELSE
    LET params == Strip(params_segment.segment)
        returns == parse_returns(source, params_segment.next)
    IN  IF ~returns.ok THEN ValueError ELSE
    LET body == parse_body(source, returns.idx)
    IN  IF ~body.ok THEN ValueError ELSE
        [ok |-> TRUE,
         func |-> [receiver |-> receiver.text,
                   receiver_type |-> _extract_receiver_type_src(receiver.text),
                   name |-> name,
                   full_name |-> name \o generics.text,
                   params |-> IF params # <<>> /\ params[1] = "("
                              THEN Strip(Inner(params)) ELSE params,
                   returns |-> IF /\ returns.text # <<>>
                                  /\ returns.text[1] = "("
                                  /\ returns.text[Len(returns.text)] = ")"
                               THEN Strip(Inner(returns.text)) ELSE returns.text,
                   body |-> body.text],
         next |-> body.idx]

Kw_func == <<"f", "u", "n", "c">>

\* line 282-285: "func" starts at i, is not the tail of a word and is
\* followed by a blank, a tab or a parenthesis
func_keyword_at(stripped_source, i) ==
    /\ StartsWith(stripped_source, Kw_func, i)
    /\ LET before == IF i > 1 THEN stripped_source[i - 1] ELSE " "
           after == IF i + 4 <= Len(stripped_source) THEN stripped_source[i + 4] ELSE " "
       IN  ~_is_identifier_char(before) /\ after \in {" ", "\t", "("}

\* one iteration of the while loop of lines 272-290 on the loop state st
parse_functions_step(source, stripped_source, st) ==
    IF stripped_source[st.i] = "{" THEN [st EXCEPT !.depth = st.depth + 1, !.i = st.i + 1]
    ELSE IF stripped_source[st.i] = "}"
    THEN [st EXCEPT !.depth = IF st.depth > 0 THEN st.depth - 1 ELSE 0, !.i = st.i + 1]
    ELSE IF st.depth = 0 /\ func_keyword_at(stripped_source, st.i)
    THEN LET single == _parse_single_func_src(source, st.i)
         IN  IF ~single.ok THEN [st EXCEPT !.ok = FALSE]
             ELSE [st EXCEPT !.funcs = Append(st.funcs, single.func), !.i = single.next]
    ELSE [st EXCEPT !.i = first_of(stripped_source, st.i + 1, {"{", "}", "f"})]

RECURSIVE parse_functions_loop(_, _, _)
parse_functions_loop(source, stripped_source, st) ==
    IF st.i > Len(stripped_source) THEN [ok |-> TRUE, funcs |-> st.funcs]
    ELSE LET next == parse_functions_step(source, stripped_source, st)
         IN  IF next.ok THEN parse_functions_loop(source, stripped_source, next)
             ELSE ValueError

parse_functions_src(source, stripped_source) ==
    parse_functions_loop(source, stripped_source,
                         [ok |-> TRUE, funcs |-> <<>>, depth |-> 0, i |-> 1])

(***************************************************************************)
(* parser.py: extract_declarations                                         *)
(***************************************************************************)
_token_at(source, idx, token) ==
    LET end == idx + Len(token)
    IN  /\ end - 1 <= Len(source)
        /\ SubSeq(source, idx, end - 1) = token
        /\ ~(idx > 1 /\ _is_identifier_char(source[idx - 1]))
        /\ ~(end <= Len(source) /\ _is_identifier_char(source[end]))

RECURSIVE _skip_statement_terminators(_, _)
_skip_statement_terminators(source, idx) ==
    IF idx <= Len(source) /\ source[idx] \in {" ", "\t", "\r", "\n", ";"}
    THEN _skip_statement_terminators(source, idx + 1) ELSE idx

_read_identifier(source, idx0) ==
    LET start == _skip_whitespace(source, idx0)
        idx == name_end(source, start)
    IN  [text |-> SubSeq(source, start, idx - 1), idx |-> idx]

\* lines 202-215: up to a newline or a semicolon, literals skipped
RECURSIVE simple_clause_end(_, _)
simple_clause_end(source, idx) ==
    IF idx > Len(source) THEN idx
    ELSE IF source[idx] \in {NL, ";"} THEN idx
    ELSE IF source[idx] \in {DQ, SQ}
         THEN simple_clause_end(source, _skip_string(source, idx, source[idx]))
    ELSE IF source[idx] = BT THEN simple_clause_end(source, _skip_raw_string(source, idx))
    ELSE simple_clause_end(source, idx + 1)

_read_simple_clause(source, start) ==
    LET idx == simple_clause_end(source, start)
    IN  [text |-> Strip(SubSeq(source, start, idx - 1)),
         idx |-> _skip_statement_terminators(source, idx)]

stop_chars ==
    << <<"=">>, <<":", "=">>, <<"+", "=">>, <<"-", "=">>, <<"*", "=">>, <<"/", "=">>,
       <<"%", "=">>, <<"|", "=">>, <<"&", "=">>, <<"^", "=">>, <<"<", "<", "=">>,
       <<">", ">", "=">>, <<"&", "^", "=">> >>

\* for op in stop_chars: if op in head: head = head.split(op, 1)[0]; break
RECURSIVE cut_at_stop_chars(_, _)
cut_at_stop_chars(head, k) ==
    IF k > Len(stop_chars) THEN head
    ELSE IF Find(head, stop_chars[k]) # 0
         THEN SubSeq(head, 1, Find(head, stop_chars[k]) - 1)
    ELSE cut_at_stop_chars(head, k + 1)

\* re.match(r"^[\w\s,]+", head): the matched prefix, head itself without a match
RECURSIVE names_prefix_end(_, _)
names_prefix_end(head, i) ==
    IF i <= Len(head) /\ (IsWordChar(head[i]) \/ IsSpace(head[i]) \/ head[i] = ",")
    THEN names_prefix_end(head, i + 1) ELSE i

\* the first word of every non-blank comma-separated part
RECURSIVE primary_names(_, _)
primary_names(parts, k) ==
    IF k > Len(parts) THEN <<>>
    ELSE LET name == Strip(parts[k])
         IN  (IF name # <<>> THEN <<Words(name)[1]>> ELSE <<>>)
             \o primary_names(parts, k + 1)

_extract_identifier_list(fragment) ==
    IF fragment = <<>> THEN <<>>
    ELSE LET cut == cut_at_stop_chars(fragment, 1)
             stop == names_prefix_end(cut, 1)
             head == IF stop > 1 THEN SubSeq(cut, 1, stop - 1) ELSE cut
         IN  primary_names(SplitOn(head, ","), 1)

\* lines 174-180: the names of every non-blank line of a grouped block
RECURSIVE block_names(_, _)
block_names(lines, k) ==
    IF k > Len(lines) THEN <<>>
    ELSE LET stripped == Strip(lines[k])
         IN  (IF stripped = <<>> THEN <<>> ELSE _extract_identifier_list(stripped))
             \o block_names(lines, k + 1)

_parse_const_var_decl(source, start_idx, names, kind) ==
    LET idx == _skip_whitespace(source, start_idx + Len(kind))
    IN  IF idx <= Len(source) /\ source[idx] = "("
        THEN LET block == extract_balanced(source, idx, "(", ")")
             IN  IF ~block.ok THEN ValueError
                 ELSE [ok |-> TRUE,
                       names |-> names \o block_names(SplitLines(Inner(block.segment)), 1),
                       idx |-> _skip_statement_terminators(source, block.next)]
        ELSE LET clause == _read_simple_clause(source, idx)
             IN  [ok |-> TRUE,
                  names |-> names \o _extract_identifier_list(clause.text),
                  idx |-> clause.idx]

\* token.rstrip("{(")
RECURSIVE rstrip_openers(_)
rstrip_openers(token) ==
    IF token # <<>> /\ token[Len(token)] \in {"{", "("}
    THEN rstrip_openers(SubSeq(token, 1, Len(token) - 1)) ELSE token

\* lines 152-159
RECURSIVE type_block_names(_, _)
type_block_names(lines, k) ==
    IF k > Len(lines) THEN <<>>
    ELSE LET stripped == Strip(lines[k])
             token == IF stripped = <<>> THEN <<>> ELSE rstrip_openers(Words(stripped)[1])
         IN  (IF token # <<>> THEN <<token>> ELSE <<>>) \o type_block_names(lines, k + 1)

_parse_type_decl(source, start_idx, names) ==
    LET idx == _skip_whitespace(source, start_idx + 4)
    IN  IF idx <= Len(source) /\ source[idx] = "("
        THEN LET block == extract_balanced(source, idx, "(", ")")
             IN  IF ~block.ok THEN ValueError
                 ELSE [ok |-> TRUE,
                       names |-> names \o type_block_names(SplitLines(Inner(block.segment)), 1),
                       idx |-> _skip_statement_terminators(source, block.next)]
        ELSE LET identifier == _read_identifier(source, idx)
             IN  [ok |-> TRUE,
                  names |-> IF identifier.text # <<>> THEN Append(names, identifier.text)
                            ELSE names,
                  idx |-> identifier.idx]

Kw_type == <<"t", "y", "p", "e">>
Kw_const == <<"c", "o", "n", "s", "t">>
Kw_var == <<"v", "a", "r">>

\* one iteration of the while loop of lines 87-118 on the loop state st
extract_declarations_step(source, st) ==
    LET ch == source[st.i]
    IN  IF ch \in {DQ, SQ} THEN [st EXCEPT !.i = _skip_string(source, st.i, ch)]
        ELSE IF ch = BT THEN [st EXCEPT !.i = _skip_raw_string(source, st.i)]
        ELSE IF ch = "{" THEN [st EXCEPT !.depth = st.depth + 1, !.i = st.i + 1]
        ELSE IF ch = "}"
        THEN [st EXCEPT !.depth = IF st.depth > 0 THEN st.depth - 1 ELSE 0, !.i = st.i + 1]
        ELSE IF st.depth = 0 /\ _token_at(source, st.i, Kw_type)
        THEN LET r == _parse_type_decl(source, st.i, st.types)
             IN  IF ~r.ok THEN [st EXCEPT !.ok = FALSE]
                 ELSE [st EXCEPT !.types = r.names, !.i = r.idx]
        ELSE IF st.depth = 0 /\ _token_at(source, st.i, Kw_const)
        THEN LET r == _parse_const_var_decl(source, st.i, st.consts, Kw_const)
             IN  IF ~r.ok THEN [st EXCEPT !.ok = FALSE]
                 ELSE [st EXCEPT !.consts = r.names, !.i = r.idx]
        ELSE IF st.depth = 0 /\ _token_at(source, st.i, Kw_var)
        THEN LET r == _parse_const_var_decl(source, st.i, st.vars_, Kw_var)
             IN  IF ~r.ok THEN [st EXCEPT !.ok = FALSE]
                 ELSE [st EXCEPT !.vars_ = r.names, !.i = r.idx]
        ELSE [st EXCEPT !.i = first_of(source, st.i + 1,
                                       {DQ, SQ, BT, "{", "}", "t", "c", "v"})]

RECURSIVE extract_declarations_loop(_, _)
extract_declarations_loop(source, st) ==
    IF ~st.ok THEN ValueError
    ELSE IF st.i > Len(source)
    THEN [ok |-> TRUE, types |-> st.types, consts |-> st.consts, vars_ |-> st.vars_]
    ELSE LET next == extract_declarations_step(source, st)
         IN  IF next.ok THEN extract_declarations_loop(source, next) ELSE ValueError

extract_declarations(source) ==
    extract_declarations_loop(
        source, [ok |-> TRUE, types |-> <<>>, consts |-> <<>>, vars_ |-> <<>>,
                 depth |-> 0, i |-> 1])

(***************************************************************************)
(* repository.py: paths, alias maps                                        *)
(*                                                                         *)
(* A file path is [dir, name]: dir is the directory relative to            *)
(* module_root as a sequence of segments, each a sequence of characters; a *)
(* "/"-separated string (import path, relative path) is the sequence of    *)
(* its segments.                                                           *)
(***************************************************************************)
Word_mod == <<"m", "o", "d">>
Word_sub == <<"s", "u", "b">>
Word_vendor == <<"v", "e", "n", "d", "o", "r">>
Word_testdata == <<"t", "e", "s", "t", "d", "a", "t", "a">>

module_path == <<Word_mod>>

parent(path) == path.dir

\* rel_dir.strip(".") is "" for the module root (as_posix gives "."); the
\* directories of the model have no leading or trailing dots
_compute_import_path(mod_path, file_path) ==
    IF mod_path = <<>> THEN <<>>
    ELSE IF parent(file_path) = <<>> THEN mod_path
    ELSE mod_path \o parent(file_path)

\* Path(".").as_posix() is "." for a file of the module root
_compute_relative_path(file_path) ==
    IF parent(file_path) = <<>> THEN << <<".">> >> ELSE parent(file_path)

IsPrefix(p, s) == Len(p) <= Len(s) /\ SubSeq(s, 1, Len(p)) = p

\* path == module_path or path.startswith(module_path + "/")
IsInternal(path, mod_path) == mod_path # <<>> /\ IsPrefix(mod_path, path)

RECURSIVE build_alias_maps_loop(_, _, _, _)
build_alias_maps_loop(imports, mod_path, maps, i) ==
    IF i > Len(imports) THEN maps
    ELSE LET alias == imports[i].alias
             path == imports[i].path
             normalized_alias == IF alias # <<>> THEN alias ELSE path[Len(path)]
         IN  IF alias \in {<<".">>, <<"_">>}
             THEN build_alias_maps_loop(imports, mod_path, maps, i + 1)
             ELSE build_alias_maps_loop(
                      imports, mod_path,
                      [alias_map |-> DictPut(maps.alias_map, normalized_alias, path),
                       internal_alias_map |->
                           IF IsInternal(path, mod_path)
                           THEN DictPut(maps.internal_alias_map, normalized_alias, path)
                           ELSE maps.internal_alias_map],
                      i + 1)

_build_alias_maps(imports, mod_path) ==
    build_alias_maps_loop(imports, mod_path,
                          [alias_map |-> EmptyDict, internal_alias_map |-> EmptyDict], 1)

Suffix_test == <<"_", "t", "e", "s", "t", ".", "g", "o">>

EndsWith(text, suffix) ==
    /\ Len(suffix) <= Len(text)
    /\ SubSeq(text, Len(text) - Len(suffix) + 1, Len(text)) = suffix

\* only the first directory of the path is tested for vendor and testdata
iter_go_files_top_directory(files) ==
    {path \in files :
        /\ ~EndsWith(path.name, Suffix_test)
        /\ ~(path.dir # <<>> /\ path.dir[1] \in {Word_vendor, Word_testdata})}

\* `files` is root.rglob("*.go"); rel_parts are the directories and the name
_iter_go_files(files) ==
    {path \in files :
        /\ ~EndsWith(path.name, Suffix_test)
        /\ ~\E part \in Range(path.dir \o <<path.name>>) :
               part \in {Word_vendor, Word_testdata}}

_make_function_key(func) == <<func.file_path, func.name, func.receiver_type>>

\* segments[i:] for every i, and the module-relative rest of an internal path
_match_import_to_rel_paths(import_path, rel_paths, mod_path) ==
    IF import_path = <<>> THEN {}
    ELSE LET suffixes == {SubSeq(import_path, i, Len(import_path)) :
                             i \in 1..Len(import_path)}
             rel_candidate ==
                 IF mod_path # <<>> /\ IsPrefix(mod_path, import_path)
                                    /\ Len(import_path) > Len(mod_path)
                 THEN {SubSeq(import_path, Len(mod_path) + 1, Len(import_path))}
                 ELSE {}
         IN  (suffixes \cup rel_candidate) \cap rel_paths

(***************************************************************************)
(* repository.py: build_repository_index, phase 1 (lines 79-115)           *)
(***************************************************************************)
\* one iteration of "for func in file_funcs", on the record of the indices.
\* oid stands for the identity of the dict object (the position at which it
\* is appended to the flat list): Python keeps references, and two func
\* dicts with equal contents are still two objects.
RegisterFunction(idx, func_info, go_path, mod_path) ==
    LET import_path == _compute_import_path(mod_path, go_path)
        rel_path == _compute_relative_path(go_path)
        func == [receiver |-> func_info.receiver,
                 receiver_type |-> func_info.receiver_type,
                 name |-> func_info.name,
                 body |-> func_info.body,
                 file_path |-> go_path,
                 dir_path |-> parent(go_path),
                 import_path |-> import_path,
                 rel_path |-> rel_path,
                 oid |-> Len(idx.functions) + 1,
                 key |-> _make_function_key([file_path |-> go_path,
                                             name |-> func_info.name,
                                             receiver_type |-> func_info.receiver_type])]
        dir_name == <<parent(go_path), func.name>>
        import_name == <<import_path, func.name>>
        rel_name == <<rel_path, func.name>>
    IN  [idx EXCEPT
            !.functions = Append(idx.functions, func),
            !.functions_by_file =
                DictPut(idx.functions_by_file, go_path,
                        Append(DictGet(idx.functions_by_file, go_path, <<>>), func)),
            !.registry = DictPut(idx.registry, func.key, func),
            !.functions_by_dir_name =
                DictPut(idx.functions_by_dir_name, dir_name,
                        Append(DictGet(idx.functions_by_dir_name, dir_name, <<>>), func)),
            !.functions_by_import_path_name =
                IF func.receiver_type = NoReceiverType /\ import_path # <<>>
                THEN DictPut(idx.functions_by_import_path_name, import_name,
                             Append(DictGet(idx.functions_by_import_path_name,
                                            import_name, <<>>), func))
                ELSE idx.functions_by_import_path_name,
            !.functions_by_rel_path_name =
                DictPut(idx.functions_by_rel_path_name, rel_name,
                        Append(DictGet(idx.functions_by_rel_path_name, rel_name, <<>>), func)),
            !.rel_paths_present = idx.rel_paths_present \cup {rel_path}]

RECURSIVE RegisterFunctions(_, _, _, _, _)
RegisterFunctions(idx, file_funcs, go_path, mod_path, i) ==
    IF i > Len(file_funcs) THEN idx
    ELSE RegisterFunctions(RegisterFunction(idx, file_funcs[i], go_path, mod_path),
                           file_funcs, go_path, mod_path, i + 1)

\* the body of the loop over the files (lines 80-115) on the record `st` of
\* what phase 1 builds; a file that cannot be read is passed over (except
\* OSError: continue); the alias maps are stored before parse_functions runs
extract_file(st, go_path, file, mod_path) ==
    LET maps == _build_alias_maps(file.imports, mod_path)
        parsed == parse_functions(file.decls)
        alias_maps == DictPut(st.file_alias_maps, go_path, maps)
    IN  IF ~file.readable THEN st
        ELSE IF ~parsed.ok
        THEN [st EXCEPT !.file_alias_maps = alias_maps,
                        !.warnings = Append(st.warnings, [skipped |-> go_path])]
        ELSE LET idx == RegisterFunctions(st, parsed.funcs, go_path, mod_path, 1)
             IN  [idx EXCEPT !.file_alias_maps = alias_maps]

(***************************************************************************)
(* repository.py: _build_call_graph, _invert_call_graph                    *)
(***************************************************************************)
\* the keys made anew without the receiver type, not read from target["key"]
KeysOf_without_receiver(funcs) ==
    {_make_function_key([file_path |-> funcs[i].file_path,
                         name |-> funcs[i].name,
                         receiver_type |-> NoReceiverType]) : i \in 1..Len(funcs)}

\* target["key"] of every target of a lookup
KeysOf(funcs) == {funcs[i].key : i \in 1..Len(funcs)}

\* only the first same-directory candidate instead of every one
BareCallTargets_first(by_dir_name, func, name) ==
    LET candidates == DictGet(by_dir_name, <<func.dir_path, name>>, <<>>)
    IN  IF candidates = <<>> THEN {} ELSE {candidates[1].key}

\* for target in functions_by_dir_name.get((func["dir_path"], name), [])
BareCallTargets(by_dir_name, func, name) ==
    KeysOf(DictGet(by_dir_name, <<func.dir_path, name>>, <<>>))

\* the relative-path lookups alone, without the (import path, name) lookup
SelectorCallTargets_rel_only(by_import_name, by_rel_name, rel_paths, mod_path, import_path, name) ==
    UNION {KeysOf(DictGet(by_rel_name, <<rel_path, name>>, <<>>)) :
              rel_path \in _match_import_to_rel_paths(import_path, rel_paths, mod_path)}

\* lines 206-214: the (import path, name) lookup and the (relative path, name) lookups
SelectorCallTargets(by_import_name, by_rel_name, rel_paths, mod_path, import_path, name) ==
    KeysOf(DictGet(by_import_name, <<import_path, name>>, <<>>))
    \cup UNION {KeysOf(DictGet(by_rel_name, <<rel_path, name>>, <<>>)) :
                   rel_path \in _match_import_to_rel_paths(import_path, rel_paths, mod_path)}

\* the keys one iteration of "for func in functions" adds to call_edges[func["key"]]
CallTargets(func, alias_maps, by_dir_name, by_import_name, by_rel_name, rel_paths, mod_path) ==
    IF func.body = <<>> THEN {}
    ELSE LET sanitized == _mask_string_literals(strip_comments_preserve_whitespace(func.body))
             file_context == DictGet(alias_maps, func.file_path,
                                     [alias_map |-> EmptyDict, internal_alias_map |-> EmptyDict])
         IN  UNION {BareCallTargets(by_dir_name, func, name) :
                       name \in _find_simple_calls(sanitized)}
             \cup
             UNION {SelectorCallTargets(by_import_name, by_rel_name, rel_paths, mod_path,
                                        call[1], call[2]) :
                       call \in _find_selector_calls(sanitized, file_context.alias_map)}

\* one pass: the bodies of a file are scanned right after the file is
\* registered, so only the functions registered up to then are candidates
build_call_graph_one_pass(funcs, alias_maps, by_dir_name, by_import_name, by_rel_name, rel_paths, mod_path) ==
    LET registered(i) ==
            LET last == CHOOSE j \in i..Len(funcs) :
                            /\ funcs[j].file_path = funcs[i].file_path
                            /\ \A k \in (j + 1)..Len(funcs) :
                                   funcs[k].file_path # funcs[i].file_path
            IN  {funcs[j].key : j \in 1..last}
        targets == [i \in 1..Len(funcs) |->
                       CallTargets(funcs[i], alias_maps, by_dir_name, by_import_name,
                                   by_rel_name, rel_paths, mod_path) \cap registered(i)]
        callers == {funcs[i].key : i \in {j \in 1..Len(funcs) : targets[j] # {}}}
    IN  [caller \in callers |->
            UNION {targets[i] : i \in {j \in 1..Len(funcs) : funcs[j].key = caller}}]

\* call_edges is a defaultdict(set): a key is present once an edge was added for it
_build_call_graph(funcs, alias_maps, by_dir_name, by_import_name, by_rel_name, rel_paths, mod_path) ==
    LET targets == [i \in 1..Len(funcs) |->
                       CallTargets(funcs[i], alias_maps, by_dir_name, by_import_name,
                                   by_rel_name, rel_paths, mod_path)]
        callers == {funcs[i].key : i \in {j \in 1..Len(funcs) : targets[j] # {}}}
    IN  [caller \in callers |->
            UNION {targets[i] : i \in {j \in 1..Len(funcs) : funcs[j].key = caller}}]

\* reverse_edges[callee] = {caller} instead of .add(caller): one caller is kept
invert_call_graph_overwrite(edges) ==
    LET callees == UNION {edges[caller] : caller \in DOMAIN edges}
    IN  [callee \in callees |->
            {CHOOSE caller \in DOMAIN edges : callee \in edges[caller]}]

_invert_call_graph(edges) ==
    LET callees == UNION {edges[caller] : caller \in DOMAIN edges}
    IN  [callee \in callees |-> {caller \in DOMAIN edges : callee \in edges[caller]}]

(***************************************************************************)
(* repository.py: attach_relationship_summaries and the labels it builds   *)
(***************************************************************************)
\* the characters of the labels in code point order, which is the order
\* Python compares strings by
CodePoints ==
    <<" ", "(", ")", "*", ".", "/", "0", "1", "2", "3", "4", "5", "6", "7", "8", "9", ":">> \o
    <<"A", "B", "C", "D", "E", "F", "G", "H", "I", "J", "K", "L", "M", "N", "O", "P", "Q", "R", "S", "T", "U", "V", "W", "X", "Y", "Z">> \o
    <<"[", "]", "_">> \o
    <<"a", "b", "c", "d", "e", "f", "g", "h", "i", "j", "k", "l", "m", "n", "o", "p", "q", "r", "s", "t", "u", "v", "w", "x", "y", "z">>

Ord(ch) == CHOOSE i \in 1..Len(CodePoints) : CodePoints[i] = ch

\* str.lower
LowerChar(ch) ==
    IF Ord(ch) >= Ord("A") /\ Ord(ch) <= Ord("Z")
    THEN CodePoints[Ord(ch) - Ord("A") + Ord("a")] ELSE ch

lower(text) == [i \in 1..Len(text) |-> LowerChar(text[i])]

\* left < right for two strings
StrLess(left, right) ==
    LET shorter == IF Len(left) < Len(right) THEN Len(left) ELSE Len(right)
        diffs == {i \in 1..shorter : left[i] # right[i]}
    IN  IF diffs = {} THEN Len(left) < Len(right)
        ELSE LET first == CHOOSE i \in diffs : \A j \in diffs : i <= j
             IN  Ord(left[first]) < Ord(right[first])

\* the orders sorted(set(items), key=str.lower) can return: the distinct
\* items by their lower-cased text; items with equal keys keep the order the
\* set yields them in, which the code does not control
_sorted_unique(items) ==
    LET unique == Range(items)
        n == Cardinality(unique)
    IN  {order \in [1..n -> unique] :
            /\ \A i, j \in 1..n : i # j => order[i] # order[j]
            /\ \A i, j \in 1..n : i < j => ~StrLess(lower(order[j]), lower(order[i]))}

\* the sentinel returned for a function without relations
NoRelations == [parts |-> <<>>]

\* one part of a summary: the verb and the labels joined after it
RelationPart(verb, labels) ==
    IF labels = <<>> THEN <<>> ELSE <<[verb |-> verb, labels |-> labels]>>

\* the summaries _summarize_relations can return: the parts in order, which
\* the code joins with "; ", or the sentinel when there is no part
_summarize_relations(calls, callers) ==
    {[parts |-> RelationPart("calls", unique_calls)
                \o RelationPart("called by", unique_callers)] :
        unique_calls \in _sorted_unique(calls),
        unique_callers \in _sorted_unique(callers)}

\* sep.join(segments)
RECURSIVE Join(_, _)
Join(segments, sep) ==
    IF segments = <<>> THEN <<>>
    ELSE IF Len(segments) = 1 THEN segments[1]
    ELSE segments[1] \o sep \o Join(Tail(segments), sep)

RECURSIVE strip_stars(_)
strip_stars(display) ==
    IF display # <<>> /\ display[1] = "*" THEN strip_stars(Tail(display)) ELSE display

\* the receiver type without leading stars, type arguments and package
_format_receiver_display(receiver_type) ==
    LET stripped == strip_stars(Strip(receiver_type))
        plain == IF "[" \in Range(stripped) THEN SplitOn(stripped, "[")[1] ELSE stripped
        parts == SplitOn(plain, ".")
        display == IF "." \in Range(plain) THEN parts[Len(parts)] ELSE plain
    IN  IF display # <<>> THEN display ELSE receiver_type

\* path.relative_to(base).as_posix() for a path under the module root
_relative_path(path) == Join(path.dir \o <<path.name>>, <<"/">>)

_format_function_label(target, current_func) ==
    LET base == IF target.receiver_type # NoReceiverType
                THEN _format_receiver_display(<<target.receiver_type>>)
                     \o <<".">> \o target.name
                ELSE target.name
    IN  IF target.file_path = current_func.file_path THEN base
        ELSE IF parent(target.file_path) = parent(current_func.file_path)
        THEN base \o <<" ", "(">> \o target.file_path.name \o <<")">>
        ELSE IF target.import_path # <<>> /\ target.import_path # current_func.import_path
        THEN target.import_path[Len(target.import_path)] \o <<".">> \o base
        ELSE _relative_path(target.file_path) \o <<":">> \o base

\* the comparison that sends a label to the same-file summary, made on the
\* directories
in_same_directory(other, func) == other.dir_path = func.dir_path

\* target["file_path"] == func["file_path"]
in_same_file(other, func) == other.file_path = func.file_path

\* the labels of the functions registered under the keys of one edge set that
\* fall into one bucket; a key the registry does not hold is passed over
bucket_labels(func, keys, registered, same_file) ==
    {_format_function_label(registered[key], func) :
        key \in {k \in keys \cap DOMAIN registered :
                    in_same_file(registered[k], func) = same_file}}

\* the lists are filled in the iteration order of a set and sorted afterwards:
\* any order of the labels stands for them
AnyOrder(labels) == CHOOSE order \in [1..Cardinality(labels) -> labels] : Range(order) = labels

\* lines 306-332 for one func: the summaries it can get
relationship_summaries(func, edges, reversed, registered) ==
    LET callees == DictGet(edges, func.key, {})
        callers == DictGet(reversed, func.key, {})
    IN  {[relationship_same_file |-> same, relationship_other_files |-> other] :
            same \in _summarize_relations(
                         AnyOrder(bucket_labels(func, callees, registered, TRUE)),
                         AnyOrder(bucket_labels(func, callers, registered, TRUE))),
            other \in _summarize_relations(
                         AnyOrder(bucket_labels(func, callees, registered, FALSE)),
                         AnyOrder(bucket_labels(func, callers, registered, FALSE)))}

\* the summaries every listed function can get, by position in the list
attach_relationship_summaries(funcs, edges, reversed, registered) ==
    LET possible == [i \in 1..Len(funcs) |->
                        relationship_summaries(funcs[i], edges, reversed, registered)]
    IN  {attached \in [1..Len(funcs) -> UNION Range(possible)] :
            \A i \in 1..Len(funcs) : attached[i] \in possible[i]}

(***************************************************************************)
(* Scrubber session: a short text over ScrubAlphabet is put through up to  *)
(* MaxPasses masking passes, each either of the two masks.                 *)
(***************************************************************************)
MaxLen == 5
MaxPasses == 2

ScrubAlphabet == {"x", DQ, SQ, BT, BS, NL, "/", "*"}

RECURSIVE TextsUpTo(_, _)
TextsUpTo(alphabet, n) ==
    IF n = 0 THEN {<<>>}
    ELSE LET shorter == TextsUpTo(alphabet, n - 1)
         IN  shorter \cup {Append(t, ch) : t \in {s \in shorter : Len(s) = n - 1},
                                           ch \in alphabet}

ScrubIdle ==
    /\ src_text = <<>>
    /\ prev_text = <<>>
    /\ cur_text = <<>>
    /\ ops = <<>>

IndexIdle ==
    /\ tree = <<>>
    /\ pc = "idle"
    /\ pending = {}
    /\ functions = <<>>
    /\ functions_by_file = <<>>
    /\ functions_by_dir_name = <<>>
    /\ functions_by_import_path_name = <<>>
    /\ functions_by_rel_path_name = <<>>
    /\ file_alias_maps = <<>>
    /\ registry = <<>>
    /\ rel_paths_present = {}
    /\ call_edges = <<>>
    /\ reverse_edges = <<>>
    /\ warnings = <<>>
    /\ relationships = <<>>

NotCalled == [called |-> FALSE]

GenIdle ==
    /\ requested = <<>>
    /\ gen_pc = "idle"
    /\ raised = ""
    /\ render_inputs = <<>>
    /\ error_log = <<>>
    /\ output = <<>>

IterIdle ==
    /\ doc = <<>>
    /\ it_state = <<>>
    /\ it_pc = "idle"
    /\ returned = <<>>

SumIdle ==
    /\ rel_calls = <<>>
    /\ rel_callers = <<>>
    /\ rel_summary = NotCalled

ImportsIdle ==
    /\ import_decls = <<>>
    /\ import_module = <<>>
    /\ parsed_imports = NotCalled
    /\ import_maps = NotCalled

ParseIdle ==
    /\ go_decls = <<>>
    /\ go_source = <<>>
    /\ parse_result = NotCalled
    /\ decl_result = NotCalled

InitScrub ==
    /\ src_text \in TextsUpTo(ScrubAlphabet, MaxLen)
    /\ prev_text = src_text
    /\ cur_text = src_text
    /\ ops = <<>>
    /\ IndexIdle
    /\ ParseIdle
    /\ GenIdle
    /\ IterIdle
    /\ SumIdle
    /\ ImportsIdle

StripComments ==
    /\ Len(ops) < MaxPasses
    /\ prev_text' = cur_text
    /\ cur_text' = strip_comments_preserve_whitespace(cur_text)
    /\ ops' = Append(ops, "strip")
    /\ UNCHANGED <<src_text, index_vars, parse_vars, gen_vars, iter_vars, sum_vars, imp_vars>>

MaskStringLiterals ==
    /\ Len(ops) < MaxPasses
    /\ prev_text' = cur_text
    /\ cur_text' = _mask_string_literals(cur_text)
    /\ ops' = Append(ops, "mask")
    /\ UNCHANGED <<src_text, index_vars, parse_vars, gen_vars, iter_vars, sum_vars, imp_vars>>

NextScrub == StripComments \/ MaskStringLiterals

SpecScrub == InitScrub /\ [][NextScrub]_vars

(***************************************************************************)
(* Parsing one Go file: parse_functions and extract_declarations are run   *)
(* on the text of a file made of up to MaxDecls of the top-level           *)
(* declarations below, one after the other, each ended by a newline.       *)
(***************************************************************************)
MaxDecls == 2

\* func (r *T) N(a, b int) (int, error) {}
Src_pointer_method ==
    <<"f", "u", "n", "c", " ", "(", "r", " ", "*", "T", ")", " ", "N", "(", "a", ",",
      " ", "b", " ", "i", "n", "t", ")", " ", "(", "i", "n", "t", ",", " ", "e", "r",
      "r", "o", "r", ")", " ", "{", "}">>

\* func (r T) M[K any](a int) int {}
Src_generic_method ==
    <<"f", "u", "n", "c", " ", "(", "r", " ", "T", ")", " ", "M", "[", "K", " ", "a",
      "n", "y", "]", "(", "a", " ", "i", "n", "t", ")", " ", "i", "n", "t", " ", "{",
      "}">>

\* const ( A = 1; B = 2 )
Src_const_group_line ==
    <<"c", "o", "n", "s", "t", " ", "(", " ", "A", " ", "=", " ", "1", ";", " ", "B",
      " ", "=", " ", "2", " ", ")">>

\* const C = 3
Src_const_single ==
    <<"c", "o", "n", "s", "t", " ", "C", " ", "=", " ", "3">>

\* const ( \n  D = 1 \n  E = 2 \n )
Src_const_group ==
    <<"c", "o", "n", "s", "t", " ", "(", NL, " ", "D", " ", "=", " ", "1", NL, " ",
      "E", " ", "=", " ", "2", NL, ")">>

\* var f = func() { \n  var y = 1 \n }
Src_func_literal ==
    <<"v", "a", "r", " ", "f", " ", "=", " ", "f", "u", "n", "c", "(", ")", " ", "{",
      NL, " ", "v", "a", "r", " ", "y", " ", "=", " ", "1", NL, "}">>

\* func g() { \n  var y = 1 \n }
Src_func_local_var ==
    <<"f", "u", "n", "c", " ", "g", "(", ")", " ", "{", NL, " ", "v", "a", "r", " ",
      "y", " ", "=", " ", "1", NL, "}">>

\* var s = "{"
Src_brace_literal ==
    <<"v", "a", "r", " ", "s", " ", "=", " ", DQ, "{", DQ>>

\* func e() int
Src_bodyless_func ==
    <<"f", "u", "n", "c", " ", "e", "(", ")", " ", "i", "n", "t">>

\* func h() { x() }
Src_func_call ==
    <<"f", "u", "n", "c", " ", "h", "(", ")", " ", "{", " ", "x", "(", ")", " ", "}">>

\* // func c() {
Src_comment ==
    <<"/", "/", " ", "f", "u", "n", "c", " ", "c", "(", ")", " ", "{">>

\* func k() { // } \n }
Src_comment_brace ==
    <<"f", "u", "n", "c", " ", "k", "(", ")", " ", "{", " ", "/", "/", " ", "}", NL, "}">>

\* type U struct { \n  x int \n }
Src_type ==
    <<"t", "y", "p", "e", " ", "U", " ", "s", "t", "r", "u", "c", "t", " ", "{", NL,
      " ", "x", " ", "i", "n", "t", NL, "}">>

SourceFragments ==
    {Src_pointer_method,
     Src_comment_brace,
     Src_generic_method,
     Src_const_group_line,
     Src_const_single,
     Src_const_group,
     Src_func_literal,
     Src_func_local_var,
     Src_brace_literal,
     Src_bodyless_func,
     Src_func_call,
     Src_comment,
     Src_type}

RECURSIVE FragmentSeqs(_)
FragmentSeqs(n) ==
    IF n = 0 THEN {<<>>}
    ELSE FragmentSeqs(n - 1)
         \cup {Append(fs, fragment) : fs \in FragmentSeqs(n - 1), fragment \in SourceFragments}

\* the text of the file: every declaration followed by a newline
RECURSIVE SourceOf(_)
SourceOf(fs) ==
    IF fs = <<>> THEN <<>> ELSE Head(fs) \o <<NL>> \o SourceOf(Tail(fs))

InitParse ==
    /\ go_decls \in FragmentSeqs(MaxDecls)
    /\ go_source = SourceOf(go_decls)
    /\ parse_result = NotCalled
    /\ decl_result = NotCalled
    /\ ScrubIdle
    /\ IndexIdle
    /\ GenIdle
    /\ IterIdle
    /\ SumIdle
    /\ ImportsIdle

\* funcs = parse_functions(source, stripped) with
\* stripped = strip_comments_preserve_whitespace(source)
ParseFunctions ==
    /\ ~parse_result.called
    /\ parse_result' = [called |-> TRUE,
                  result |-> parse_functions_src(
                                 go_source, strip_comments_preserve_whitespace(go_source))]
    /\ UNCHANGED <<go_decls, go_source, decl_result,
                   scrub_vars, index_vars, gen_vars, iter_vars, sum_vars, imp_vars>>

\* types, consts, vars_ = extract_declarations(stripped)
ExtractDeclarations ==
    /\ ~decl_result.called
    /\ decl_result' = [called |-> TRUE,
                    result |-> extract_declarations(
                                   strip_comments_preserve_whitespace(go_source))]
    /\ UNCHANGED <<go_decls, go_source, parse_result,
                   scrub_vars, index_vars, gen_vars, iter_vars, sum_vars, imp_vars>>

NextParse == ParseFunctions \/ ExtractDeclarations

SpecParse == InitParse /\ [][NextParse]_vars

(***************************************************************************)
(* The file trees build_repository_index is run on.  Three eligible files: *)
(* a.go and b.go in the module root, sub/c.go in the package mod/sub.      *)
(* a.go imports mod/sub as p, sub/c.go imports the root package mod as p,  *)
(* b.go imports nothing.  The files hold at most MaxFuncs func             *)
(* declarations together, any split, each drawn from Decls.                *)
(***************************************************************************)
MaxFuncs == 3

Path_a == [dir |-> <<>>, name |-> <<"a", ".", "g", "o">>]
Path_b == [dir |-> <<>>, name |-> <<"b", ".", "g", "o">>]
Path_c == [dir |-> <<Word_sub>>, name |-> <<"c", ".", "g", "o">>]
Paths == {Path_a, Path_b, Path_c}

\* a_test.go, vendor/v.go and sub/testdata/t.go: files the walk passes over
Path_test == [dir |-> <<>>, name |-> <<"a", "_", "t", "e", "s", "t", ".", "g", "o">>]
Path_vendor == [dir |-> <<Word_vendor>>, name |-> <<"v", ".", "g", "o">>]
Path_testdata == [dir |-> <<Word_sub, Word_testdata>>, name |-> <<"t", ".", "g", "o">>]
ExcludedPaths == {Path_test, Path_vendor, Path_testdata}

\* root.rglob("*.go")
GoFiles == Paths \cup ExcludedPaths

ImportsOf(path) ==
    IF path = Path_a THEN <<[alias |-> <<"p">>, path |-> <<Word_mod, Word_sub>>]>>
    ELSE IF path = Path_c THEN <<[alias |-> <<"p">>, path |-> <<Word_mod>>]>>
    ELSE <<>>

Body_empty == <<"{", "}">>                                  \* {}
Body_bare == <<"{", "F", "(", ")", "}">>                    \* {F()}
Body_selector == <<"{", "p", ".", "F", "(", ")", "}">>      \* {p.F()}
Body_unterminated == <<"{", "F", "(">>                      \* {F(

\* func F() {}      func (T) F() {}     func (r T) F() {}
\* func G() {F()}   func G() {p.F()}    func G() {F(
Decls ==
    {[name |-> <<"F">>, receiver |-> <<>>, body_src |-> Body_empty],
     [name |-> <<"F">>, receiver |-> <<"T">>, body_src |-> Body_empty],
     [name |-> <<"F">>, receiver |-> <<"r", "T">>, body_src |-> Body_empty],
     [name |-> <<"G">>, receiver |-> <<>>, body_src |-> Body_bare],
     [name |-> <<"G">>, receiver |-> <<>>, body_src |-> Body_selector],
     [name |-> <<"G">>, receiver |-> <<>>, body_src |-> Body_unterminated]}

RECURSIVE DeclSeqs(_)
DeclSeqs(n) ==
    IF n = 0 THEN {<<>>}
    ELSE {Append(ds, d) : ds \in DeclSeqs(n - 1), d \in Decls}

\* readable: go_path.read_text raises no OSError; utf8: the bytes of the file
\* decode as UTF-8
FileOf(path, decls) ==
    [imports |-> ImportsOf(path), decls |-> decls, readable |-> TRUE, utf8 |-> TRUE]

\* every file the walk passes over holds  func F() {}
ExcludedFile(path) ==
    FileOf(path, <<[name |-> <<"F">>, receiver |-> <<>>, body_src |-> Body_empty]>>)

Init ==
    /\ ScrubIdle
    /\ ParseIdle
    /\ GenIdle
    /\ IterIdle
    /\ SumIdle
    /\ ImportsIdle
    /\ \E na \in 0..MaxFuncs :
       \E nb \in 0..(MaxFuncs - na) :
       \E nc \in 0..(MaxFuncs - na - nb) :
       \E da \in DeclSeqs(na), db \in DeclSeqs(nb), dc \in DeclSeqs(nc) :
           tree = [path \in GoFiles |->
                      IF path = Path_a THEN FileOf(path, da)
                      ELSE IF path = Path_b THEN FileOf(path, db)
                      ELSE IF path = Path_c THEN FileOf(path, dc)
                      ELSE ExcludedFile(path)]
    /\ pc = "extract"
    /\ pending = _iter_go_files(GoFiles)
    /\ functions = <<>>
    /\ functions_by_file = EmptyDict
    /\ functions_by_dir_name = EmptyDict
    /\ functions_by_import_path_name = EmptyDict
    /\ functions_by_rel_path_name = EmptyDict
    /\ file_alias_maps = EmptyDict
    /\ registry = EmptyDict
    /\ rel_paths_present = {}
    /\ call_edges = EmptyDict
    /\ reverse_edges = EmptyDict
    /\ warnings = <<>>
    /\ relationships = <<>>

\* the state phase 1 builds, as one record
Phase1 ==
    [functions |-> functions,
     functions_by_file |-> functions_by_file,
     registry |-> registry,
     functions_by_dir_name |-> functions_by_dir_name,
     functions_by_import_path_name |-> functions_by_import_path_name,
     functions_by_rel_path_name |-> functions_by_rel_path_name,
     rel_paths_present |-> rel_paths_present,
     file_alias_maps |-> file_alias_maps,
     warnings |-> warnings]

\* One iteration of "for go_path in _iter_go_files(module_root)": the walk
\* yields the eligible files in an order the code does not control.
ExtractFile(go_path) ==
    /\ pc = "extract"
    /\ go_path \in pending
    /\ IF tree[go_path].readable /\ ~tree[go_path].utf8
       THEN \* read_text raises UnicodeDecodeError, which is no OSError: the
            \* exception leaves build_repository_index
            /\ pc' = "raised"
            /\ UNCHANGED <<pending, functions, functions_by_file, registry,
                           functions_by_dir_name, functions_by_import_path_name,
                           functions_by_rel_path_name, rel_paths_present,
                           file_alias_maps, warnings>>
       ELSE /\ pending' = pending \ {go_path}
            /\ pc' = pc
            /\ LET st == extract_file(Phase1, go_path, tree[go_path], module_path)
               IN  /\ functions' = st.functions
                   /\ functions_by_file' = st.functions_by_file
                   /\ registry' = st.registry
                   /\ functions_by_dir_name' = st.functions_by_dir_name
                   /\ functions_by_import_path_name' = st.functions_by_import_path_name
                   /\ functions_by_rel_path_name' = st.functions_by_rel_path_name
                   /\ rel_paths_present' = st.rel_paths_present
                   /\ file_alias_maps' = st.file_alias_maps
                   /\ warnings' = st.warnings
    /\ UNCHANGED <<tree, call_edges, reverse_edges, relationships,
                   scrub_vars, parse_vars, gen_vars, iter_vars, sum_vars, imp_vars>>

\* the walk is exhausted: lines 117-125
BuildCallGraph ==
    /\ pc = "extract"
    /\ pending = {}
    /\ call_edges' = _build_call_graph(functions, file_alias_maps, functions_by_dir_name,
                                       functions_by_import_path_name,
                                       functions_by_rel_path_name, rel_paths_present,
                                       module_path)
    /\ pc' = "invert"
    /\ UNCHANGED <<tree, pending, functions, functions_by_file, functions_by_dir_name,
                   functions_by_import_path_name, functions_by_rel_path_name,
                   file_alias_maps, registry, rel_paths_present, reverse_edges, warnings,
                   relationships, scrub_vars, parse_vars, gen_vars, iter_vars, sum_vars, imp_vars>>

\* line 126
InvertCallGraph ==
    /\ pc = "invert"
    /\ reverse_edges' = _invert_call_graph(call_edges)
    /\ pc' = "summaries"
    /\ UNCHANGED <<tree, pending, functions, functions_by_file, functions_by_dir_name,
                   functions_by_import_path_name, functions_by_rel_path_name,
                   file_alias_maps, registry, rel_paths_present, call_edges, warnings,
                   relationships, scrub_vars, parse_vars, gen_vars, iter_vars, sum_vars, imp_vars>>

\* lines 127-135: the summaries are attached and the index is returned
ReturnIndex ==
    /\ pc = "summaries"
    /\ relationships' \in attach_relationship_summaries(functions, call_edges,
                                                        reverse_edges, registry)
    /\ pc' = "done"
    /\ UNCHANGED <<tree, pending, functions, functions_by_file, functions_by_dir_name,
                   functions_by_import_path_name, functions_by_rel_path_name,
                   file_alias_maps, registry, rel_paths_present, call_edges,
                   reverse_edges, warnings,
                   scrub_vars, parse_vars, gen_vars, iter_vars, sum_vars, imp_vars>>

Next ==
    \/ \E go_path \in GoFiles : ExtractFile(go_path)
    \/ BuildCallGraph
    \/ InvertCallGraph
    \/ ReturnIndex

Spec == Init /\ [][Next]_vars

(***************************************************************************)
(* build_repository_index over trees in which one eligible file may be     *)
(* faulty: read_text raises OSError for it, or its bytes are not UTF-8.    *)
(***************************************************************************)
MaxFaultyFuncs == 2

\* the state in which the walk over the tree starts
IndexStart(files) ==
    /\ ScrubIdle
    /\ ParseIdle
    /\ GenIdle
    /\ IterIdle
    /\ SumIdle
    /\ ImportsIdle
    /\ tree = files
    /\ pc = "extract"
    /\ pending = _iter_go_files(GoFiles)
    /\ functions = <<>>
    /\ functions_by_file = EmptyDict
    /\ functions_by_dir_name = EmptyDict
    /\ functions_by_import_path_name = EmptyDict
    /\ functions_by_rel_path_name = EmptyDict
    /\ file_alias_maps = EmptyDict
    /\ registry = EmptyDict
    /\ rel_paths_present = {}
    /\ call_edges = EmptyDict
    /\ reverse_edges = EmptyDict
    /\ warnings = <<>>
    /\ relationships = <<>>

Faults == {"none", "oserror", "undecodable"}

FaultyFile(file, fault) ==
    [file EXCEPT !.readable = fault # "oserror", !.utf8 = fault # "undecodable"]

InitFaulty ==
    \E na \in 0..MaxFaultyFuncs :
    \E nb \in 0..(MaxFaultyFuncs - na) :
    \E nc \in 0..(MaxFaultyFuncs - na - nb) :
    \E da \in DeclSeqs(na), db \in DeclSeqs(nb), dc \in DeclSeqs(nc) :
    \E faulty \in Paths, fault \in Faults :
        IndexStart([path \in GoFiles |->
                       IF path \in ExcludedPaths THEN ExcludedFile(path)
                       ELSE FaultyFile(FileOf(path, IF path = Path_a THEN da
                                                    ELSE IF path = Path_b THEN db ELSE dc),
                                       IF path = faulty THEN fault ELSE "none")])

SpecFaulty == InitFaulty /\ [][Next]_vars

(***************************************************************************)
(* build_repository_index over trees whose function bodies hold calls      *)
(* inside literals and comments, and a selector call through the alias q   *)
(* of the third-party package ext/sub, which a.go imports.                 *)
(***************************************************************************)
MaxCallFuncs == 2

Word_ext == <<"e", "x", "t">>

\* {"F()"}  {'p.F()'}  {`F()`}  {//F() \n}  {/*p.F()*/}  {q.F()}
Body_in_string == <<"{", DQ, "F", "(", ")", DQ, "}">>
Body_in_rune == <<"{", SQ, "p", ".", "F", "(", ")", SQ, "}">>
Body_in_raw == <<"{", BT, "F", "(", ")", BT, "}">>
Body_in_line_comment == <<"{", "/", "/", "F", "(", ")", NL, "}">>
Body_in_block_comment == <<"{", "/", "*", "p", ".", "F", "(", ")", "*", "/", "}">>
Body_external == <<"{", "q", ".", "F", "(", ")", "}">>

MaskedBodies ==
    {Body_in_string, Body_in_rune, Body_in_raw, Body_in_line_comment, Body_in_block_comment}

CallDecls ==
    {[name |-> <<"F">>, receiver |-> <<>>, body_src |-> Body_empty],
     [name |-> <<"H">>, receiver |-> <<>>, body_src |-> Body_bare],
     [name |-> <<"K">>, receiver |-> <<>>, body_src |-> Body_external]}
    \cup {[name |-> <<"G">>, receiver |-> <<>>, body_src |-> body] : body \in MaskedBodies}

RECURSIVE CallDeclSeqs(_)
CallDeclSeqs(n) ==
    IF n = 0 THEN {<<>>}
    ELSE {Append(ds, d) : ds \in CallDeclSeqs(n - 1), d \in CallDecls}

\* a.go also has  import q "ext/sub"
CallImportsOf(path) ==
    IF path = Path_a
    THEN ImportsOf(path) \o <<[alias |-> <<"q">>, path |-> <<Word_ext, Word_sub>>]>>
    ELSE ImportsOf(path)

InitCalls ==
    \E na \in 0..MaxCallFuncs :
    \E nb \in 0..(MaxCallFuncs - na) :
    \E nc \in 0..(MaxCallFuncs - na - nb) :
    \E da \in CallDeclSeqs(na), db \in CallDeclSeqs(nb), dc \in CallDeclSeqs(nc) :
        IndexStart([path \in GoFiles |->
                       IF path \in ExcludedPaths THEN ExcludedFile(path)
                       ELSE [FileOf(path, IF path = Path_a THEN da
                                          ELSE IF path = Path_b THEN db ELSE dc)
                                EXCEPT !.imports = CallImportsOf(path)]])

SpecCalls == InitCalls /\ [][Next]_vars

(***************************************************************************)
(* generator.py: generate_documentation for one requested path, over a     *)
(* tree of at most MaxGenFuncs func declarations in which at most one      *)
(* eligible file cannot be read.  The request runs build_repository_index  *)
(* (the actions above) between its own steps.                              *)
(***************************************************************************)
MaxGenFuncs == 1

\* the directory sub: a path that is not a regular file
Path_dir == [dir |-> <<>>, name |-> Word_sub]

Requests == {Path_a, Path_c, Path_test, Path_dir}

\* the text of a declaration and of a file (package clause and imports left out)
RECURSIVE ReceiverText(_)
ReceiverText(parts) ==
    IF parts = <<>> THEN <<>>
    ELSE IF Len(parts) = 1 THEN <<parts[1]>>
    ELSE <<parts[1], " ">> \o ReceiverText(Tail(parts))

DeclText(decl) ==
    Kw_func \o <<" ">>
    \o (IF decl.receiver = <<>> THEN <<>>
        ELSE <<"(">> \o ReceiverText(decl.receiver) \o <<")", " ">>)
    \o decl.name \o <<"(", ")", " ">> \o decl.body_src

RECURSIVE FileText(_)
FileText(decls) ==
    IF decls = <<>> THEN <<>> ELSE DeclText(Head(decls)) \o <<NL>> \o FileText(Tail(decls))

InitGen ==
    /\ ScrubIdle
    /\ ParseIdle
    /\ IterIdle
    /\ SumIdle
    /\ ImportsIdle
    /\ \E na \in 0..MaxGenFuncs :
       \E nb \in 0..(MaxGenFuncs - na) :
       \E nc \in 0..(MaxGenFuncs - na - nb) :
       \E da \in DeclSeqs(na), db \in DeclSeqs(nb), dc \in DeclSeqs(nc) :
       \E unreadable \in {{}} \cup {{path} : path \in Paths} :
           tree = [path \in GoFiles |->
                      IF path \in ExcludedPaths THEN ExcludedFile(path)
                      ELSE [FileOf(path, IF path = Path_a THEN da
                                         ELSE IF path = Path_b THEN db ELSE dc)
                               EXCEPT !.readable = path \notin unreadable]]
    /\ pc = "idle"
    /\ pending = {}
    /\ functions = <<>>
    /\ functions_by_file = EmptyDict
    /\ functions_by_dir_name = EmptyDict
    /\ functions_by_import_path_name = EmptyDict
    /\ functions_by_rel_path_name = EmptyDict
    /\ file_alias_maps = EmptyDict
    /\ registry = EmptyDict
    /\ rel_paths_present = {}
    /\ call_edges = EmptyDict
    /\ reverse_edges = EmptyDict
    /\ warnings = <<>>
    /\ relationships = <<>>
    /\ requested \in Requests
    /\ gen_pc = "start"
    /\ raised = ""
    /\ render_inputs = <<>>
    /\ error_log = <<>>
    /\ output = EmptyDict

\* go_file.is_file()
is_file(path) == path \in DOMAIN tree

\* parser.extract_type_details is imported by generator.py and is not part of
\* this source tree: it is taken to return the details of no type and to
\* raise nothing
extract_type_details(stripped_source) == <<>>

\* lines 353-376: the checks and extractions before the index is built; the
\* call of build_repository_index starts the walk
PrepareRenderInputs ==
    /\ gen_pc = "start"
    /\ IF ~is_file(requested)
       THEN /\ raised' = "FileNotFoundError"
            /\ gen_pc' = "failed"
            /\ UNCHANGED <<render_inputs, pc, pending>>
       ELSE IF ~tree[requested].readable
       THEN /\ raised' = "OSError"
            /\ gen_pc' = "failed"
            /\ UNCHANGED <<render_inputs, pc, pending>>
       ELSE LET stripped == strip_comments_preserve_whitespace(
                                FileText(tree[requested].decls))
                declarations == extract_declarations(stripped)
            IN  IF ~declarations.ok
                THEN /\ raised' = "ValueError"
                     /\ gen_pc' = "failed"
                     /\ UNCHANGED <<render_inputs, pc, pending>>
                ELSE /\ render_inputs' = [types |-> declarations.types,
                                          consts |-> declarations.consts,
                                          vars_ |-> declarations.vars_,
                                          type_details |->
                                              extract_type_details(stripped),
                                          funcs |-> <<>>]
                     /\ gen_pc' = "index"
                     /\ pc' = "extract"
                     /\ pending' = _iter_go_files(GoFiles)
                     /\ UNCHANGED raised
    /\ UNCHANGED <<tree, functions, functions_by_file, functions_by_dir_name,
                   functions_by_import_path_name, functions_by_rel_path_name,
                   file_alias_maps, registry, rel_paths_present, call_edges,
                   reverse_edges, warnings, relationships, requested, error_log, output,
                   scrub_vars, parse_vars, iter_vars, sum_vars, imp_vars>>

\* a parse error of the requested file is swallowed: no functions
request_functions_lenient(indexed, file) ==
    IF indexed # <<>> THEN [ok |-> TRUE, funcs |-> indexed]
    ELSE IF parse_functions(file.decls).ok THEN parse_functions(file.decls)
    ELSE [ok |-> TRUE, funcs |-> <<>>]

\* lines 388-402: the functions the index lists for the file, or, when it
\* lists none, the file parsed directly, a ValueError re-raised
request_functions(indexed, file) ==
    IF indexed # <<>> THEN [ok |-> TRUE, funcs |-> indexed]
    ELSE parse_functions(file.decls)

\* lines 377-451, once build_repository_index has returned
FetchFunctions ==
    /\ gen_pc = "index"
    /\ pc = "done"
    /\ LET funcs == request_functions(DictGet(functions_by_file, requested, <<>>),
                                      tree[requested])
       IN  IF ~funcs.ok
           THEN /\ error_log' = Append(error_log, [failed |-> requested])
                /\ raised' = "ValueError"
                /\ gen_pc' = "failed"
                /\ UNCHANGED render_inputs
           ELSE /\ render_inputs' = [render_inputs EXCEPT !.funcs = funcs.funcs]
                /\ gen_pc' = "render"
                /\ UNCHANGED <<error_log, raised>>
    /\ UNCHANGED <<index_vars, requested, output,
                   scrub_vars, parse_vars, iter_vars, sum_vars, imp_vars>>

\* go_file.with_name(f"{go_file.stem}.doc.md")
DocPath(path) ==
    [path EXCEPT !.name = SubSeq(path.name, 1, Len(path.name) - 3)
                          \o <<".", "d", "o", "c", ".", "m", "d">>]

\* lines 466-481: the template is rendered and written
WriteDocument ==
    /\ gen_pc = "render"
    /\ output' = DictPut(output, DocPath(requested), render_inputs)
    /\ gen_pc' = "written"
    /\ UNCHANGED <<index_vars, requested, raised, render_inputs, error_log,
                   scrub_vars, parse_vars, iter_vars, sum_vars, imp_vars>>

NextGen ==
    \/ PrepareRenderInputs
    \/ \E go_path \in GoFiles : ExtractFile(go_path)
    \/ BuildCallGraph
    \/ InvertCallGraph
    \/ ReturnIndex
    \/ FetchFunctions
    \/ WriteDocument

SpecGen == InitGen /\ [][NextGen]_vars

(***************************************************************************)
(* iterate_functions.py: a caller walks a generated document block by      *)
(* block, passing the returned state back, and may rewrite the block it    *)
(* was just given before it asks for the next one.  A document is a        *)
(* sequence of lines; a line is a sequence of characters.                  *)
(***************************************************************************)
MaxBlocks == 3
MaxBodyLines == 2

\* the head of FUNC_HEADER_PATTERN, and stand-ins in Latin letters for the two
\* SECTION_TITLES
Header_func == <<"#", "#", "#", " ", BT, "f", "u", "n", "c">>
Title_purpose == <<"P", "u", "r", "p", "o", "s", "e">>
Title_structure == <<"S", "t", "r", "u", "c", "t", "u", "r", "e">>
SECTION_TITLES == {Title_purpose, Title_structure}

\* FUNC_HEADER_PATTERN.match(stripped): the head, white space, a name that
\* runs to the closing backquote at the end of the line
func_header_match(stripped) ==
    /\ Len(stripped) >= Len(Header_func) + 3
    /\ StartsWith(stripped, Header_func, 1)
    /\ IsSpace(stripped[Len(Header_func) + 1])
    /\ stripped[Len(stripped)] = BT

func_header_name(stripped) ==
    Strip(SubSeq(stripped, Len(Header_func) + 2, Len(stripped) - 1))

\* a block as _collect_block_starts creates it
FunctionBlock(name, start_line, end_line, kind) ==
    [name |-> name, start_line |-> start_line, end_line |-> end_line,
     length |-> 0, kind |-> kind]

RECURSIVE collect_from(_, _)
collect_from(lines, idx) ==
    IF idx > Len(lines) THEN <<>>
    ELSE LET stripped == Strip(lines[idx])
             found ==
                 IF StartsWith(stripped, <<"#", "#", " ">>, 1)
                 THEN LET title == Strip(SubSeq(stripped, 3, Len(stripped)))
                      IN  IF title \in SECTION_TITLES
                          THEN <<FunctionBlock(title, idx, Len(lines), "section")>>
                          ELSE <<>>
                 ELSE IF StartsWith(stripped, <<"#", "#", "#", " ">>, 1)
                      THEN IF func_header_match(stripped)
                           THEN <<FunctionBlock(func_header_name(stripped), idx,
                                                Len(lines), "func")>>
                           ELSE <<>>
                      ELSE <<>>
         IN  found \o collect_from(lines, idx + 1)

\* the starts are collected in line order, which the final sort keeps
_collect_block_starts(lines) == collect_from(lines, 1)

parse_function_blocks(lines) ==
    LET starts == _collect_block_starts(lines)
    IN  [i \in 1..Len(starts) |->
            LET end_line == IF i = Len(starts) THEN Len(lines)
                            ELSE starts[i + 1].start_line - 1
            IN  [starts[i] EXCEPT !.end_line = end_line,
                                  !.length = end_line - starts[i].start_line + 1]]

\* the iterator state: after_line is None when has_line is false, after_func
\* is None when it is the empty name
NoState == [has_line |-> FALSE, after_line |-> 0, after_func |-> <<>>]
NoBlock == [found |-> FALSE]

\* the number of blocks to pass over: up to the first block named after_func
start_index_of(blocks, after_func) ==
    IF after_func # <<>> /\ \E i \in 1..Len(blocks) : blocks[i].name = after_func
    THEN CHOOSE i \in 1..Len(blocks) :
             /\ blocks[i].name = after_func
             /\ \A j \in 1..(i - 1) : blocks[j].name # after_func
    ELSE 0

\* the name cursor alone: the block after the first one named after_func
select_next_block_by_name(blocks, state) ==
    LET start_index == start_index_of(blocks, state.after_func)
    IN  IF start_index < Len(blocks)
        THEN [found |-> TRUE, block |-> blocks[start_index + 1]]
        ELSE NoBlock

\* a line cursor, when there is one, is tested on the blocks after start_index
select_next_block(blocks, state) ==
    LET start_index == start_index_of(blocks, state.after_func)
        later == {i \in (start_index + 1)..Len(blocks) :
                     blocks[i].start_line > state.after_line}
    IN  IF state.has_line
        THEN IF later = {} THEN NoBlock
             ELSE [found |-> TRUE,
                   block |-> blocks[CHOOSE i \in later : \A j \in later : i <= j]]
        ELSE IF start_index < Len(blocks)
             THEN [found |-> TRUE, block |-> blocks[start_index + 1]]
             ELSE NoBlock

\* the lines of the documents
Line_text == <<"x">>
Line_heading == <<"#", "#", " ", "O", "t", "h", "e", "r">>
Line_func_A == <<"#", "#", "#", " ", BT, "f", "u", "n", "c", " ", "A", BT>>
Line_func_B == <<"#", "#", "#", " ", BT, "f", "u", "n", "c", " ", "(", "r", " ", "*", "T", ")", " ", "B", BT>>
Line_section == <<"#", "#", " ">> \o Title_purpose
HeaderLines == {Line_func_A, Line_func_B, Line_section}

TextLines(n) == [i \in 1..n |-> Line_text]

\* a header and its body
BlockTexts == {<<header>> \o TextLines(n) : header \in HeaderLines, n \in 0..MaxBodyLines}

RECURSIVE Documents(_)
Documents(n) ==
    IF n = 0 THEN {<<>>}
    ELSE {d \o b : d \in Documents(n - 1), b \in BlockTexts}

InitIterate ==
    /\ ScrubIdle
    /\ IndexIdle
    /\ ParseIdle
    /\ GenIdle
    /\ SumIdle
    /\ ImportsIdle
    /\ \E n \in 0..MaxBlocks :
       \E preamble \in {<<>>, <<Line_heading>>} :
       \E d \in Documents(n) : doc = preamble \o d
    /\ it_state = NoState
    /\ it_pc = "call"
    /\ returned = <<>>

\* next_function_segment(template, state): the file is read again on every
\* call; a block found moves both cursors
NextFunctionSegment ==
    /\ it_pc \in {"call", "returned"}
    /\ LET blocks == parse_function_blocks(doc)
           next_block == select_next_block(blocks, it_state)
       IN  IF next_block.found
           THEN /\ it_state' = [has_line |-> TRUE,
                                after_line |-> next_block.block.end_line,
                                after_func |-> next_block.block.name]
                /\ returned' = Append(returned, next_block.block)
                /\ it_pc' = "returned"
           ELSE /\ it_pc' = "exhausted"
                /\ UNCHANGED <<it_state, returned>>
    /\ UNCHANGED <<doc, scrub_vars, index_vars, parse_vars, gen_vars, sum_vars, imp_vars>>

\* between two calls the caller replaces the body of the block it was just
\* given by n lines of text; the header lines stay as they are
EditReturnedBlock(n) ==
    /\ it_pc = "returned"
    /\ LET block == returned[Len(returned)]
       IN  doc' = SubSeq(doc, 1, block.start_line) \o TextLines(n)
                  \o SubSeq(doc, block.end_line + 1, Len(doc))
    /\ it_pc' = "call"
    /\ UNCHANGED <<it_state, returned,
                   scrub_vars, index_vars, parse_vars, gen_vars, sum_vars, imp_vars>>

NextIterate ==
    \/ NextFunctionSegment
    \/ \E n \in 0..MaxBodyLines : EditReturnedBlock(n)

SpecIterate == InitIterate /\ [][NextIterate]_vars

\* the same loop over a document that nobody rewrites between the calls
SpecIterateUnmodified == InitIterate /\ [][NextFunctionSegment]_vars

(***************************************************************************)
(* repository.py: _summarize_relations on two lists of at most MaxLabels   *)
(* labels.  A label is a sequence of characters.                           *)
(***************************************************************************)
MaxLabels == 2

Label_Foo == <<"F", "o", "o">>
Label_foo == <<"f", "o", "o">>
Label_Bar == <<"B", "a", "r">>
Label_T_bar == <<"T", ".", "b", "a", "r">>
Labels == {Label_Foo, Label_foo, Label_Bar, Label_T_bar}

LabelLists == UNION {[1..n -> Labels] : n \in 0..MaxLabels}

InitSummary ==
    /\ ScrubIdle
    /\ IndexIdle
    /\ ParseIdle
    /\ GenIdle
    /\ IterIdle
    /\ rel_calls \in LabelLists
    /\ rel_callers \in LabelLists
    /\ rel_summary = NotCalled
    /\ ImportsIdle

SummarizeRelations ==
    /\ ~rel_summary.called
    /\ \E summary \in _summarize_relations(rel_calls, rel_callers) :
           rel_summary' = [called |-> TRUE, result |-> summary]
    /\ UNCHANGED <<rel_calls, rel_callers, scrub_vars, index_vars, parse_vars, gen_vars,
                   iter_vars, imp_vars>>

NextSummary == SummarizeRelations

SpecSummary == InitSummary /\ [][NextSummary]_vars

(***************************************************************************)
(* parser.py parse_imports and repository.py _build_alias_maps on the text *)
(* of the import declarations of a file: at most MaxImports declarations,  *)
(* with and without a module path.                                         *)
(***************************************************************************)
MaxImports == 2

\* re.sub(r"/\*.*?\*/", "", token)
RECURSIVE remove_block_comments(_)
remove_block_comments(token) ==
    LET open == Find(token, <<"/", "*">>)
        rest == SubSeq(token, open + 2, Len(token))
        close == Find(rest, <<"*", "/">>)
    IN  IF open = 0 \/ close = 0 THEN token
        ELSE SubSeq(token, 1, open - 1)
             \o remove_block_comments(SubSeq(rest, close + 2, Len(rest)))

\* str.strip('"`')
RECURSIVE strip_quotes(_)
strip_quotes(path) ==
    IF path # <<>> /\ path[1] \in {DQ, BT} THEN strip_quotes(Tail(path))
    ELSE IF path # <<>> /\ path[Len(path)] \in {DQ, BT}
    THEN strip_quotes(SubSeq(path, 1, Len(path) - 1))
    ELSE path

\* the entry of one import token, <<>> for None; the alias is <<>> for None
_parse_import_entry(token) ==
    LET comment == Find(token, <<"/", "/">>)
        code == Strip(IF comment = 0 THEN token ELSE SubSeq(token, 1, comment - 1))
        plain == Strip(remove_block_comments(code))
        parts == Words(plain)
    IN  IF code = <<>> \/ plain = <<>> THEN <<>>
        ELSE <<[alias |-> IF Len(parts) = 1 THEN <<>> ELSE parts[1],
                path |-> strip_quotes(parts[Len(parts)])]>>

\* the entries of the lines of an import group from line i on, and the line
\* the group stops at
RECURSIVE import_group(_, _)
import_group(lines, i) ==
    IF i > Len(lines) THEN [imports |-> <<>>, i |-> i]
    ELSE IF StartsWith(Strip(lines[i]), <<")">>, 1) THEN [imports |-> <<>>, i |-> i]
    ELSE LET rest == import_group(lines, i + 1)
         IN  [imports |-> _parse_import_entry(Strip(lines[i])) \o rest.imports, i |-> rest.i]

Kw_import == <<"i", "m", "p", "o", "r", "t", " ">>

RECURSIVE parse_imports_loop(_, _)
parse_imports_loop(lines, i) ==
    IF i > Len(lines) THEN <<>>
    ELSE LET line == Strip(lines[i])
             rest == Strip(SubSeq(line, 7, Len(line)))
         IN  IF ~StartsWith(line, Kw_import, 1) THEN parse_imports_loop(lines, i + 1)
             ELSE IF StartsWith(rest, <<"(">>, 1)
             THEN LET group == import_group(lines, i + 1)
                  IN  group.imports \o parse_imports_loop(lines, group.i + 1)
             ELSE _parse_import_entry(rest) \o parse_imports_loop(lines, i + 1)

parse_imports(source) == parse_imports_loop(SplitLines(source), 1)

\* path.startswith(module_path): the "/" after the module path is not asked for
is_internal_by_prefix(path, mod_path) ==
    mod_path # <<>> /\ StartsWith(path, mod_path, 1)

\* module_path and (path == module_path or path.startswith(module_path + "/"))
is_internal(path, mod_path) ==
    mod_path # <<>> /\ (path = mod_path \/ StartsWith(path, mod_path \o <<"/">>, 1))

\* path.split("/")[-1]
last_segment(path) == SplitOn(path, "/")[Len(SplitOn(path, "/"))]

RECURSIVE alias_maps_loop(_, _, _, _)
alias_maps_loop(imports, mod_path, maps, i) ==
    IF i > Len(imports) THEN maps
    ELSE LET alias == imports[i].alias
             path == imports[i].path
             normalized_alias == IF alias # <<>> THEN alias ELSE last_segment(path)
         IN  IF alias \in {<<".">>, <<"_">>}
             THEN alias_maps_loop(imports, mod_path, maps, i + 1)
             ELSE alias_maps_loop(
                      imports, mod_path,
                      [alias_map |-> DictPut(maps.alias_map, normalized_alias, path),
                       internal_alias_map |->
                           IF is_internal(path, mod_path)
                           THEN DictPut(maps.internal_alias_map, normalized_alias, path)
                           ELSE maps.internal_alias_map],
                      i + 1)

\* _build_alias_maps on the entries parse_imports returns
build_alias_maps_of_text(imports, mod_path) ==
    alias_maps_loop(imports, mod_path,
                    [alias_map |-> EmptyDict, internal_alias_map |-> EmptyDict], 1)

\* import "mod/sub"
Imp_plain ==
    <<"i", "m", "p", "o", "r", "t", " ", DQ, "m", "o", "d", "/", "s", "u", "b", DQ>>

\* import p "mod"
Imp_alias ==
    <<"i", "m", "p", "o", "r", "t", " ", "p", " ", DQ, "m", "o", "d", DQ>>

\* import . "mod/sub"
Imp_dot ==
    <<"i", "m", "p", "o", "r", "t", " ", ".", " ", DQ, "m", "o", "d", "/", "s", "u",
          "b", DQ>>

\* import _ "mod/x"
Imp_blank ==
    <<"i", "m", "p", "o", "r", "t", " ", "_", " ", DQ, "m", "o", "d", "/", "x", DQ>>

\* import "modx/y"
Imp_lookalike ==
    <<"i", "m", "p", "o", "r", "t", " ", DQ, "m", "o", "d", "x", "/", "y", DQ>>

\* import q "fmt"
Imp_external ==
    <<"i", "m", "p", "o", "r", "t", " ", "q", " ", DQ, "f", "m", "t", DQ>>

\* import ( \n  a "mod/sub" // c \n )
Imp_group ==
    <<"i", "m", "p", "o", "r", "t", " ", "(", NL, " ", "a", " ", DQ, "m", "o", "d",
          "/", "s", "u", "b", DQ, " ", "/", "/", " ", "c", NL, ")">>

ImportFragments ==
    {Imp_plain, Imp_alias, Imp_dot, Imp_blank, Imp_lookalike, Imp_external, Imp_group}

ImportSeqs == UNION {[1..n -> ImportFragments] : n \in 0..MaxImports}

\* the text of the file: package clause, then the declarations, one per line
import_source ==
    <<"p", "a", "c", "k", "a", "g", "e", " ", "m", NL>> \o SourceOf(import_decls)

Module_mod == <<"m", "o", "d">>

InitImports ==
    /\ ScrubIdle
    /\ IndexIdle
    /\ ParseIdle
    /\ GenIdle
    /\ IterIdle
    /\ SumIdle
    /\ import_decls \in ImportSeqs
    /\ import_module \in {<<>>, Module_mod}
    /\ parsed_imports = NotCalled
    /\ import_maps = NotCalled

\* imports = parse_imports(source)
ParseImports ==
    /\ ~parsed_imports.called
    /\ parsed_imports' = [called |-> TRUE, imports |-> parse_imports(import_source)]
    /\ UNCHANGED <<import_decls, import_module, import_maps, scrub_vars, index_vars,
                   parse_vars, gen_vars, iter_vars, sum_vars>>

\* alias_map, internal_alias_map = _build_alias_maps(imports, module_path)
BuildAliasMaps ==
    /\ parsed_imports.called
    /\ ~import_maps.called
    /\ import_maps' = [called |-> TRUE,
                       maps |-> build_alias_maps_of_text(parsed_imports.imports,
                                                         import_module)]
    /\ UNCHANGED <<import_decls, import_module, parsed_imports, scrub_vars, index_vars,
                   parse_vars, gen_vars, iter_vars, sum_vars>>

NextImports == ParseImports \/ BuildAliasMaps

SpecImports == InitImports /\ [][NextImports]_vars

(***************************************************************************)
(* Claims about build_repository_index (checked under Spec)                *)
(***************************************************************************)
Done == pc = "done"

Edges(key) == DictGet(call_edges, key, {})
ReverseEdges(key) == DictGet(reverse_edges, key, {})

EdgeKeys(edges) == DOMAIN edges \cup UNION {edges[k] : k \in DOMAIN edges}

\* the text of `word` stands at offset s of `body`
WordAt(body, s, word) ==
    /\ s + Len(word) - 1 <= Len(body)
    /\ SubSeq(body, s, s + Len(word) - 1) = word

\* offset e is followed by optional white space and an opening parenthesis
ParenAfter(body, e) ==
    \E k \in (e + 1)..Len(body) :
        /\ body[k] = "("
        /\ \A m \in (e + 1)..(k - 1) : IsSpace(body[m])

\* the body holds the bare call  name(  : the whole word `name`, not
\* preceded by a dot, followed by an opening parenthesis
HasBareCall(body, name) ==
    \E s \in 1..Len(body) :
        /\ WordAt(body, s, name)
        /\ s = 1 \/ (~IsWordChar(body[s - 1]) /\ body[s - 1] # ".")
        /\ ParenAfter(body, s + Len(name) - 1)

\* the body holds the selector call  alias.name(
HasSelectorCall(body, alias, name) ==
    \E s \in 1..Len(body) :
        /\ WordAt(body, s, alias \o <<".">> \o name)
        /\ s = 1 \/ ~IsWordChar(body[s - 1])
        /\ ParenAfter(body, s + Len(alias) + Len(name))

\* C1: once the index is built the reverse edge map is the exact transpose
\* of the forward edge map: B is in call_edges[A] iff A is in reverse_edges[B].
C1_ReverseIsTranspose ==
    Done => \A A \in EdgeKeys(call_edges) \cup EdgeKeys(reverse_edges) :
            \A B \in EdgeKeys(call_edges) \cup EdgeKeys(reverse_edges) :
                (B \in Edges(A)) <=> (A \in ReverseEdges(B))

\* a callee with two different callers
C1_Witness ==
    /\ Done
    /\ \E B \in DOMAIN reverse_edges : Cardinality(reverse_edges[B]) >= 2

\* C2: no two functions of the flat list have the same identity key; the
\* registry holds one entry per listed function and maps each key to it.
C2_IdentityKeysUnique ==
    Done => /\ \A i, j \in 1..Len(functions) :
                  i # j => functions[i].key # functions[j].key
            /\ Cardinality(DOMAIN registry) = Len(functions)
            /\ \A i \in 1..Len(functions) : registry[functions[i].key] = functions[i]

\* C3: a bare call Name( produces an edge from the caller to every indexed
\* function called Name of the caller's directory.
C3_BareCallReachesEveryCandidate ==
    Done => \A i, j \in 1..Len(functions) :
                (/\ functions[j].dir_path = functions[i].dir_path
                 /\ HasBareCall(functions[i].body, functions[j].name))
                    => functions[j].key \in Edges(functions[i].key)

\* two receiverless functions of one name in different files of a directory,
\* and a third function of that directory that calls the name: edges to both
C3_Witness ==
    /\ Done
    /\ \E i, j, k \in 1..Len(functions) :
          /\ i # j /\ i # k /\ j # k
          /\ functions[j].name = functions[k].name
          /\ functions[j].receiver = <<>> /\ functions[k].receiver = <<>>
          /\ functions[j].file_path # functions[k].file_path
          /\ functions[j].dir_path = functions[i].dir_path
          /\ functions[k].dir_path = functions[i].dir_path
          /\ HasBareCall(functions[i].body, functions[j].name)
          /\ functions[j].key # functions[k].key
          /\ {functions[j].key, functions[k].key} \subseteq Edges(functions[i].key)

\* C4: a selector call alias.Name( in a file that imports path P under that
\* alias produces an edge to every receiverless function Name of the
\* package with import path P.
C4_SelectorCallReachesImportPath ==
    Done => \A i, j \in 1..Len(functions) :
            \A e \in Range(tree[functions[i].file_path].imports) :
                (/\ e.alias \notin {<<>>, <<".">>, <<"_">>}
                 /\ HasSelectorCall(functions[i].body, e.alias, functions[j].name)
                 /\ functions[j].receiver = <<>>
                 /\ module_path \o functions[j].file_path.dir = e.path)
                    => functions[j].key \in Edges(functions[i].key)

\* p.F() in a.go, which imports mod/sub as p, has an edge to F of sub/c.go
C4_Witness ==
    /\ Done
    /\ \E i, j \in 1..Len(functions) :
          /\ functions[i].file_path = Path_a
          /\ functions[j].file_path = Path_c
          /\ functions[j].receiver = <<>>
          /\ HasSelectorCall(functions[i].body, <<"p">>, functions[j].name)
          /\ functions[j].key \in Edges(functions[i].key)

\* the build over the same tree with the files walked in the order a.go,
\* b.go, sub/c.go
ReferenceWalk == <<Path_a, Path_b, Path_c>>

EmptyPhase1 ==
    [functions |-> <<>>,
     functions_by_file |-> EmptyDict,
     registry |-> EmptyDict,
     functions_by_dir_name |-> EmptyDict,
     functions_by_import_path_name |-> EmptyDict,
     functions_by_rel_path_name |-> EmptyDict,
     rel_paths_present |-> {},
     file_alias_maps |-> EmptyDict,
     warnings |-> <<>>]

RECURSIVE WalkFrom(_, _, _)
WalkFrom(st, walk, i) ==
    IF i > Len(walk) THEN st
    ELSE WalkFrom(extract_file(st, walk[i], tree[walk[i]], module_path), walk, i + 1)

ReferencePhase1 == WalkFrom(EmptyPhase1, ReferenceWalk, 1)

ReferenceEdges ==
    LET st == ReferencePhase1
    IN  _build_call_graph(st.functions, st.file_alias_maps, st.functions_by_dir_name,
                          st.functions_by_import_path_name, st.functions_by_rel_path_name,
                          st.rel_paths_present, module_path)

\* C5: a build yields the same set of identity keys and the same forward and
\* reverse edges as any other build over the same tree, whatever the order
\* in which the walk enumerates the files.
C5_BuildIsDeterministic ==
    Done => /\ KeysOf(functions) = KeysOf(ReferencePhase1.functions)
            /\ call_edges = ReferenceEdges
            /\ reverse_edges = _invert_call_graph(ReferenceEdges)

\* a build that walked b.go before a.go and found edges
C5_Witness ==
    /\ Done
    /\ call_edges # EmptyDict
    /\ \E i, j \in 1..Len(functions) :
          i < j /\ functions[i].file_path = Path_b /\ functions[j].file_path = Path_a

ParseRaises(path) == ~parse_functions(tree[path].decls).ok

FunctionsOfFile(funcs, path) == {f \in Range(funcs) : f.file_path = path}

\* every function the lookup indices hold
IndexedFunctions ==
    Range(functions)
    \cup UNION {Range(functions_by_file[k]) : k \in DOMAIN functions_by_file}
    \cup {registry[k] : k \in DOMAIN registry}
    \cup UNION {Range(functions_by_dir_name[k]) : k \in DOMAIN functions_by_dir_name}
    \cup UNION {Range(functions_by_import_path_name[k]) :
                   k \in DOMAIN functions_by_import_path_name}
    \cup UNION {Range(functions_by_rel_path_name[k]) :
                   k \in DOMAIN functions_by_rel_path_name}

\* the declarations of a file are listed for it, in source order
ListedInOrder(path) ==
    LET decls == tree[path].decls
        listed == DictGet(functions_by_file, path, <<>>)
    IN  /\ Len(listed) = Len(decls)
        /\ \A i \in 1..Len(decls) :
              /\ listed[i].name = decls[i].name
              /\ listed[i].receiver = decls[i].receiver
              /\ listed[i].file_path = path
              /\ listed[i] \in Range(functions)
              /\ listed[i].key \in DOMAIN registry
              /\ listed[i] \in Range(DictGet(functions_by_dir_name,
                                             <<path.dir, decls[i].name>>, <<>>))

\* C6: a file whose signature parsing raises contributes no function to the
\* list, the per-file listing, the registry or a lookup index and is logged
\* exactly once; the functions of every other file are indexed.
C6_ParseFailureIsolated ==
    Done => \A path \in Paths :
                IF ParseRaises(path)
                THEN /\ \A f \in IndexedFunctions : f.file_path # path
                     /\ path \notin DOMAIN functions_by_file
                     /\ \A k \in DOMAIN registry : k[1] # path
                     /\ Cardinality({i \in 1..Len(warnings) : warnings[i].skipped = path}) = 1
                ELSE ListedInOrder(path)

\* a file with a well-formed declaration and an unterminated one was skipped
\* and another file was indexed
C6_Witness ==
    /\ Done
    /\ \E path, other \in Paths :
          /\ ParseRaises(path)
          /\ \E i \in 1..Len(tree[path].decls) :
                _parse_single_func(tree[path].decls[i]).ok
          /\ ~ParseRaises(other)
          /\ FunctionsOfFile(functions, other) # {}
          /\ Len(warnings) = 1

\* an eligible file the build skipped: it could not be read or its signature
\* parsing raised
Skipped(path) == ~tree[path].readable \/ ParseRaises(path)

\* C16: every eligible file that a finished build skipped, unreadable or
\* unparsable, has a warning record, and a build that finished without a
\* warning lists the functions of every eligible file.
C16_EverySkipIsLogged ==
    Done => /\ \A path \in Paths :
                  Skipped(path) => \E i \in 1..Len(warnings) : warnings[i].skipped = path
            /\ warnings = <<>> => \A path \in Paths : ListedInOrder(path)

\* the requested path is a readable regular file whose signature parsing raises
RequestedParseFails ==
    /\ is_file(requested)
    /\ tree[requested].readable
    /\ ~parse_functions(tree[requested].decls).ok

\* C17: a request for a file whose signature parsing raises never reaches the
\* rendering step and writes no document, and when it has failed the error is
\* the parse error, logged once; a request for a path that is not a regular
\* file fails with FileNotFoundError while the index build has not started,
\* nothing has been parsed and nothing is written.
C17_RequestedFileFailureIsFatal ==
    /\ RequestedParseFails =>
          /\ gen_pc \in {"start", "index", "failed"}
          /\ output = EmptyDict
          /\ gen_pc = "failed" => raised = "ValueError" /\ Len(error_log) = 1
          /\ gen_pc = "index" /\ Done => ENABLED FetchFunctions
    /\ ~is_file(requested) =>
          /\ gen_pc \in {"start", "failed"}
          /\ gen_pc = "failed" => raised = "FileNotFoundError"
          /\ pc = "idle"
          /\ functions = <<>>
          /\ warnings = <<>>
          /\ render_inputs = <<>>
          /\ output = EmptyDict

\* the request for a file with an unterminated body failed after the index was
\* built with the file skipped
C17_Witness ==
    /\ RequestedParseFails
    /\ Done
    /\ gen_pc = "failed"
    /\ raised = "ValueError"
    /\ \E i \in 1..Len(warnings) : warnings[i].skipped = requested
    /\ output = EmptyDict

\* the names of the blocks of a list, in order
BlockNames(blocks) == [i \in 1..Len(blocks) |-> blocks[i].name]

\* C18: when the iterator reports that nothing is left, the blocks it
\* returned are the blocks of the document, each once and in document order,
\* whatever the caller rewrote between the calls.
C18_EveryBlockReturnedOnce ==
    it_pc = "exhausted" => BlockNames(returned) = BlockNames(parse_function_blocks(doc))

\* the lines of a document that open a block: a function header or one of
\* the section titles
IsBlockStart(line) ==
    LET stripped == Strip(line)
    IN  \/ func_header_match(stripped)
        \/ /\ StartsWith(stripped, <<"#", "#", " ">>, 1)
           /\ Strip(SubSeq(stripped, 3, Len(stripped))) \in SECTION_TITLES

BlockStartLines(lines) == {i \in 1..Len(lines) : IsBlockStart(lines[i])}

\* C30: on a document that is not modified, the calls return the blocks in
\* increasing start-line order, one block per call and each block once
\* (blocks of one name included); the call after the last block returns no
\* block, so the loop ends after (number of blocks + 1) calls; each block
\* ends on the line before the next one starts and the last one ends on the
\* last line of the document.
C30_UnmodifiedDocumentVisitedInOrder ==
    LET starts == BlockStartLines(doc)
        n == Len(returned)
    IN  /\ \A i \in 1..n :
              /\ returned[i].start_line \in starts
              /\ Cardinality({line \in starts : line < returned[i].start_line}) = i - 1
              /\ returned[i].length = returned[i].end_line - returned[i].start_line + 1
        /\ \A i \in 1..(n - 1) : returned[i].end_line + 1 = returned[i + 1].start_line
        /\ it_pc = "exhausted" =>
              /\ n = Cardinality(starts)
              /\ n > 0 => returned[n].end_line = Len(doc)

\* three blocks were returned, the first and the last of one name, one of
\* them longer than its header, and the fourth call returned no block
C30_Witness ==
    /\ it_pc = "exhausted"
    /\ Len(returned) = 3
    /\ returned[1].name = returned[3].name
    /\ returned[1].name # returned[2].name
    /\ \E i \in 1..3 : returned[i].length > 1

\* the labels a verb has in a summary, none when the summary has no such part
LabelsOf(summary, verb) ==
    IF \E i \in 1..Len(summary.parts) : summary.parts[i].verb = verb
    THEN (CHOOSE part \in Range(summary.parts) : part.verb = verb).labels
    ELSE <<>>

\* a list without two labels of the same lower-cased text, in the order of
\* the lower-cased texts
SortedUniqueIgnoringCase(labels) ==
    /\ \A i, j \in 1..Len(labels) : i # j => lower(labels[i]) # lower(labels[j])
    /\ \A i, j \in 1..Len(labels) : i < j => ~StrLess(lower(labels[j]), lower(labels[i]))

\* C23: in a summary the calls list and the called-by list hold no two labels
\* that differ only in letter case and are sorted ignoring case, the calls
\* part precedes the called-by part, and the sentinel is returned exactly
\* when both lists are empty.
C23_SummaryListsUniqueIgnoringCase ==
    rel_summary.called =>
        LET summary == rel_summary.result
        IN  /\ SortedUniqueIgnoringCase(LabelsOf(summary, "calls"))
            /\ SortedUniqueIgnoringCase(LabelsOf(summary, "called by"))
            /\ [i \in 1..Len(summary.parts) |-> summary.parts[i].verb]
                   \in {<<>>, <<"calls">>, <<"called by">>, <<"calls", "called by">>}
            /\ Range(LabelsOf(summary, "calls")) = Range(rel_calls)
            /\ Range(LabelsOf(summary, "called by")) = Range(rel_callers)
            /\ summary = NoRelations <=> (rel_calls = <<>> /\ rel_callers = <<>>)

\* the edge from or to the function under `key` is reported to `func` in the
\* summary its file path selects, under `verb`, and in that summary alone
ReportedOnce(func, rel, key, verb) ==
    /\ key \in DOMAIN registry
    /\ LET label == _format_function_label(registry[key], func)
           same == Range(LabelsOf(rel.relationship_same_file, verb))
           other == Range(LabelsOf(rel.relationship_other_files, verb))
       IN  IF registry[key].file_path = func.file_path
           THEN label \in same /\ label \notin other
           ELSE label \in other /\ label \notin same

\* every label a summary of `func` lists under `verb` is the label of an edge
\* of `func` among `keys`
OnlyEdgesReported(func, rel, keys, verb) ==
    \A label \in Range(LabelsOf(rel.relationship_same_file, verb))
                 \cup Range(LabelsOf(rel.relationship_other_files, verb)) :
        \E key \in keys \cap DOMAIN registry :
            label = _format_function_label(registry[key], func)

\* C26: for every listed function, each outgoing and each incoming edge is
\* reported in exactly one of its two summaries, the same-file summary if and
\* only if the other function's file path equals its own; no edge is dropped
\* and the summaries report nothing but edges.
C26_EdgesPartitionedByFile ==
    Done => \A i \in 1..Len(functions) :
                LET func == functions[i]
                    rel == relationships[i]
                    callees == DictGet(call_edges, func.key, {})
                    callers == DictGet(reverse_edges, func.key, {})
                IN  /\ \A key \in callees : ReportedOnce(func, rel, key, "calls")
                    /\ \A key \in callers : ReportedOnce(func, rel, key, "called by")
                    /\ OnlyEdgesReported(func, rel, callees, "calls")
                    /\ OnlyEdgesReported(func, rel, callers, "called by")

\* a function calls one function of its own file and one of another file; the
\* first is called from its own file, the second from another file
C26_Witness ==
    /\ Done
    /\ \E i \in 1..Len(functions) :
          /\ LabelsOf(relationships[i].relationship_same_file, "calls") # <<>>
          /\ LabelsOf(relationships[i].relationship_other_files, "calls") # <<>>
    /\ \E i \in 1..Len(functions) :
          LabelsOf(relationships[i].relationship_same_file, "called by") # <<>>
    /\ \E i \in 1..Len(functions) :
          LabelsOf(relationships[i].relationship_other_files, "called by") # <<>>

\* the alias and the path an import declaration of the file states
ImportAliasOf(fragment) ==
    IF fragment = Imp_alias THEN <<"p">>
    ELSE IF fragment = Imp_dot THEN <<".">>
    ELSE IF fragment = Imp_blank THEN <<"_">>
    ELSE IF fragment = Imp_external THEN <<"q">>
    ELSE IF fragment = Imp_group THEN <<"a">>
    ELSE <<>>

ImportPathOf(fragment) ==
    IF fragment \in {Imp_plain, Imp_dot, Imp_group} THEN <<"m", "o", "d", "/", "s", "u", "b">>
    ELSE IF fragment = Imp_alias THEN <<"m", "o", "d">>
    ELSE IF fragment = Imp_blank THEN <<"m", "o", "d", "/", "x">>
    ELSE IF fragment = Imp_lookalike THEN <<"m", "o", "d", "x", "/", "y">>
    ELSE <<"f", "m", "t">>

\* the name an import is called by: its alias or the last segment of its path
ImportNameOf(fragment) ==
    IF ImportAliasOf(fragment) # <<>> THEN ImportAliasOf(fragment)
    ELSE IF fragment = Imp_plain THEN <<"s", "u", "b">>
    ELSE <<"y">>

\* the imports of the file that can be called through a selector
CallableImports ==
    {fragment \in Range(import_decls) : ImportAliasOf(fragment) \notin {<<".">>, <<"_">>}}

\* the path is the module path or lies below it
BelowModule(path) ==
    /\ import_module # <<>>
    /\ \/ path = import_module
       \/ /\ Len(path) > Len(import_module)
          /\ SubSeq(path, 1, Len(import_module)) = import_module
          /\ path[Len(import_module) + 1] = "/"

\* C24: the alias map has one key per import not aliased . or _, the alias or
\* the last segment of the path, mapped to the path; the internal alias map
\* holds exactly the entries whose path is the module path or lies below it.
C24_AliasMapOfCallableImports ==
    import_maps.called =>
        LET alias_map == import_maps.maps.alias_map
            internal_alias_map == import_maps.maps.internal_alias_map
        IN  /\ DOMAIN alias_map = {ImportNameOf(fragment) : fragment \in CallableImports}
            /\ \A fragment \in CallableImports :
                  alias_map[ImportNameOf(fragment)] = ImportPathOf(fragment)
            /\ <<".">> \notin DOMAIN alias_map
            /\ <<"_">> \notin DOMAIN alias_map
            /\ DOMAIN internal_alias_map =
                   {ImportNameOf(fragment) :
                       fragment \in {f \in CallableImports : BelowModule(ImportPathOf(f))}}
            /\ \A name \in DOMAIN internal_alias_map :
                  internal_alias_map[name] = alias_map[name]

\* a file of module mod imports mod/sub under . and modx/y without alias: the
\* alias map has the one key y and no import is internal
C24_Witness ==
    /\ import_maps.called
    /\ import_module = Module_mod
    /\ import_decls = <<Imp_dot, Imp_lookalike>>
    /\ DOMAIN import_maps.maps.alias_map = {<<"y">>}
    /\ import_maps.maps.internal_alias_map = EmptyDict

\* the file cannot be read: an I/O error, or bytes that are not UTF-8
ReadFails(path) == ~tree[path].readable \/ ~tree[path].utf8

\* C28: when reading one eligible file fails, the build does not abort, and
\* the finished index lists the functions of every other eligible file.
C28_ReadFailureIsolated ==
    /\ pc # "raised"
    /\ Done => \A path \in Paths :
                  (~ReadFails(path) /\ ~ParseRaises(path)) => ListedInOrder(path)

\* C25: a function whose body holds an identifier followed by ( only inside a
\* string, character or raw-string literal or inside a comment has no
\* outgoing call edge.
C25_NoEdgeFromLiteralOrComment ==
    Done => \A i \in 1..Len(functions) :
                (\E body \in MaskedBodies : functions[i].body = body)
                    => DictGet(call_edges, functions[i].key, {}) = {}

\* a function whose only call text lies in a literal or a comment is indexed
\* next to a function F of its own directory and has no edge to it
C25_Witness ==
    /\ Done
    /\ \E i, j \in 1..Len(functions) :
          /\ functions[i].body \in MaskedBodies
          /\ functions[j].name = <<"F">>
          /\ functions[j].dir_path = functions[i].dir_path
          /\ functions[i].key \notin DOMAIN call_edges

\* C27: a selector call through an alias of an import path outside the module
\* produces no edge, whatever directories the repository has.
C27_NoEdgeForExternalSelector ==
    Done => \A i \in 1..Len(functions) :
                functions[i].body = Body_external
                    => DictGet(call_edges, functions[i].key, {}) = {}

\* C29: the call graph has no dangling reference: every key of the forward
\* and of the reverse edge map, caller or callee, is a key of the registry
\* and the key of a function of the flat list.
C29_NoDanglingEdgeKeys ==
    Done => \A k \in EdgeKeys(call_edges) \cup EdgeKeys(reverse_edges) :
                /\ k \in DOMAIN registry
                /\ \E i \in 1..Len(functions) : functions[i].key = k

\* an index with an edge inside one directory and an edge into another one
C29_Witness ==
    /\ Done
    /\ \E caller \in DOMAIN call_edges : \E callee \in call_edges[caller] :
          registry[caller].dir_path = registry[callee].dir_path
    /\ \E callee \in DOMAIN reverse_edges : \E caller \in reverse_edges[callee] :
          registry[caller].dir_path # registry[callee].dir_path

\* a test file, or a file under a directory named vendor or testdata
IsTestFile(path) ==
    Len(path.name) >= 8 /\ SubSeq(path.name, Len(path.name) - 7, Len(path.name)) = Suffix_test

UnderVendorOrTestdata(path) ==
    \E i \in 1..Len(path.dir) : path.dir[i] \in {Word_vendor, Word_testdata}

NotEligible(path) == IsTestFile(path) \/ UnderVendorOrTestdata(path)

\* C15: no function of a test file or of a file under a vendor or testdata
\* directory, at any depth, is ever in the function list, the registry, a
\* lookup index, or the source or target of an edge.
C15_ExcludedFilesNeverIndexed ==
    /\ \A f \in IndexedFunctions : ~NotEligible(f.file_path)
    /\ \A path \in DOMAIN functions_by_file : ~NotEligible(path)
    /\ \A key \in DOMAIN registry : ~NotEligible(key[1])
    /\ \A key \in EdgeKeys(call_edges) \cup EdgeKeys(reverse_edges) : ~NotEligible(key[1])

\* the tree holds func F() {} in a_test.go, vendor/v.go and sub/testdata/t.go;
\* a function of the module root calls F and has edges, none into those files
C15_Witness ==
    /\ Done
    /\ \A path \in ExcludedPaths : NotEligible(path) /\ tree[path].decls # <<>>
    /\ \E i \in 1..Len(functions) :
          /\ functions[i].dir_path = <<>>
          /\ HasBareCall(functions[i].body, <<"F">>)
          /\ Edges(functions[i].key) # {}

\* C7: no body is scanned for calls before every file is extracted and
\* registered, so a call to a function of a file enumerated after the
\* caller's file has its edge; reverse edges follow the forward graph.
C7_TwoPhaseBarrier ==
    /\ pc # "extract" => pending = {}
    /\ call_edges # EmptyDict => pending = {} /\ pc # "extract"
    /\ reverse_edges # EmptyDict => pc \in {"summaries", "done"}
    /\ pc \in {"summaries", "done"} => DOMAIN reverse_edges \subseteq EdgeKeys(call_edges)
    /\ Done => \A i, j \in 1..Len(functions) :
                  (/\ i < j
                   /\ functions[i].file_path # functions[j].file_path
                   /\ functions[j].dir_path = functions[i].dir_path
                   /\ HasBareCall(functions[i].body, functions[j].name))
                      => functions[j].key \in Edges(functions[i].key)

\* the caller's file was enumerated before the callee's file
C7_Witness ==
    /\ Done
    /\ \E i, j \in 1..Len(functions) :
          /\ i < j
          /\ functions[i].file_path # functions[j].file_path
          /\ functions[j].dir_path = functions[i].dir_path
          /\ HasBareCall(functions[i].body, functions[j].name)
          /\ functions[j].key \in Edges(functions[i].key)

(***************************************************************************)
(* Claims about parsing one file (checked under SpecParse)                 *)
(***************************************************************************)
Parsed == parse_result.called /\ parse_result.result.ok
Declared == decl_result.called /\ decl_result.result.ok

\* a Go file declares a name once
WellFormedFile == \A i, j \in 1..Len(go_decls) : i # j => go_decls[i] # go_decls[j]

ParsedNames == {parse_result.result.funcs[i].name : i \in 1..Len(parse_result.result.funcs)}

\* the receiver clause  (r *T)
Receiver_pointer == <<"(", "r", " ", "*", "T", ")">>
Params_a_b_int == <<"a", ",", " ", "b", " ", "i", "n", "t">>
Returns_int_error == <<"i", "n", "t", ",", " ", "e", "r", "r", "o", "r">>

\* C12: a method with the receiver clause (r *T) parses to the receiver type
\* T, the pointer marker stripped; func (r *T) N(a, b int) (int, error)
\* has the full name N, the params "a, b int" and the returns "int, error".
C12_PointerReceiverIsBareType ==
    Parsed => \A i \in 1..Len(parse_result.result.funcs) :
                  LET f == parse_result.result.funcs[i]
                  IN  f.receiver = Receiver_pointer
                          => /\ f.receiver_type = <<"T">>
                             /\ f.full_name = <<"N">>
                             /\ f.params = Params_a_b_int
                             /\ f.returns = Returns_int_error

\* the const names a declaration of the file declares, in order
ConstNamesOf(fragment) ==
    IF fragment = Src_const_group_line THEN << <<"A">>, <<"B">> >>
    ELSE IF fragment = Src_const_single THEN << <<"C">> >>
    ELSE IF fragment = Src_const_group THEN << <<"D">>, <<"E">> >>
    ELSE <<>>

RECURSIVE ConstNamesOfFile(_)
ConstNamesOfFile(fs) ==
    IF fs = <<>> THEN <<>> ELSE ConstNamesOf(Head(fs)) \o ConstNamesOfFile(Tail(fs))

\* C13: extract_declarations returns every const name of a grouped or
\* single-clause declaration once, in first-seen order: [A, B] for
\* const ( A = 1; B = 2 ) and [C] for const C = 3.
C13_ConstNamesInOrder ==
    (Declared /\ WellFormedFile)
        => decl_result.result.consts = ConstNamesOfFile(go_decls)

\* the names the file declares at brace depth 0
TopLevelTypes == {<<"U">>}
TopLevelConsts == {<<"A">>, <<"B">>, <<"C">>, <<"D">>, <<"E">>}
TopLevelVars == {<<"f">>, <<"s">>}

\* C14: a var, const or type declared inside a function body, the body of a
\* function literal assigned to a package-level variable included, is never
\* returned by extract_declarations.
C14_NestedDeclarationsIgnored ==
    Declared => /\ Range(decl_result.result.types) \subseteq TopLevelTypes
                /\ Range(decl_result.result.consts) \subseteq TopLevelConsts
                /\ Range(decl_result.result.vars_) \subseteq TopLevelVars

\* the name of the function a declaration of the file declares
FuncNameOf(fragment) ==
    IF fragment = Src_pointer_method THEN <<"N">>
    ELSE IF fragment = Src_generic_method THEN <<"M">>
    ELSE IF fragment = Src_func_local_var THEN <<"g">>
    ELSE IF fragment = Src_bodyless_func THEN <<"e">>
    ELSE IF fragment = Src_func_call THEN <<"h">>
    ELSE IF fragment = Src_comment_brace THEN <<"k">>
    ELSE <<>>

\* C19: a brace inside a literal outside any function body does not change
\* the nesting depth of parse_functions: every top-level function declared
\* after var s = "{" is still extracted.
C19_BraceInLiteralKeepsDepth ==
    (Parsed /\ WellFormedFile)
        => \A i, j \in 1..Len(go_decls) :
               (i < j /\ go_decls[i] = Src_brace_literal /\ FuncNameOf(go_decls[j]) # <<>>)
                   => FuncNameOf(go_decls[j]) \in ParsedNames

\* the body text a declaration of the file has for its function
FuncBodyOf(fragment) ==
    IF fragment \in {Src_pointer_method, Src_generic_method} THEN <<"{", "}">>
    ELSE IF fragment = Src_func_local_var
         THEN <<"{", NL, " ", "v", "a", "r", " ", "y", " ", "=", " ", "1", NL, "}">>
    ELSE IF fragment = Src_func_call
         THEN <<"{", " ", "x", "(", ")", " ", "}">>
    ELSE <<>>

\* C20: a func declaration without a body yields an entry with empty body
\* text, and a function declared later in the file is still extracted as
\* its own entry with its own body.
C20_BodylessFuncHasEmptyBody ==
    (Parsed /\ WellFormedFile)
        => \A k \in 1..Len(parse_result.result.funcs) :
               parse_result.result.funcs[k].name = <<"e">>
                   => /\ parse_result.result.funcs[k].body = <<>>
                      /\ \A i, j \in 1..Len(go_decls) :
                            (/\ i < j
                             /\ go_decls[i] = Src_bodyless_func
                             /\ FuncNameOf(go_decls[j]) # <<>>)
                                => \E m \in 1..Len(parse_result.result.funcs) :
                                      /\ parse_result.result.funcs[m].name
                                             = FuncNameOf(go_decls[j])
                                      /\ parse_result.result.funcs[m].body
                                             = FuncBodyOf(go_decls[j])

(***************************************************************************)
(* Claims about the scrubber (checked under SpecScrub)                     *)
(***************************************************************************)
\* Offsets of the newline characters of a text
NewlineOffsets(text) == {i \in 1..Len(text) : text[i] = NL}

LastOp == IF ops = <<>> THEN "none" ELSE ops[Len(ops)]

SameLengthAndNewlines(before, after) ==
    /\ Len(after) = Len(before)
    /\ NewlineOffsets(after) = NewlineOffsets(before)

\* C8: the comment mask returns a text of the same length whose newline
\* characters sit at exactly the offsets they have in its argument.
C8_CommentMaskKeepsLengthAndNewlines ==
    LastOp = "strip" => SameLengthAndNewlines(prev_text, cur_text)

\* a block comment holding a newline has been masked, the newline kept
C8_Witness ==
    /\ LastOp = "strip"
    /\ \E i \in 1..(Len(prev_text) - 2) :
          /\ prev_text[i] = "/" /\ prev_text[i + 1] = "*" /\ prev_text[i + 2] = NL
          /\ cur_text[i] = SP /\ cur_text[i + 1] = SP /\ cur_text[i + 2] = NL

\* C9: the literal mask returns a text of the same length whose newline
\* characters sit at exactly the offsets they have in its argument, also for
\* unterminated quoted literals and quoted literals that hold a newline.
C9_LiteralMaskKeepsLengthAndNewlines ==
    LastOp = "mask" => SameLengthAndNewlines(prev_text, cur_text)

\* C10: the literal mask is idempotent: masking a masked text changes nothing.
C10_LiteralMaskIdempotent ==
    (Len(ops) >= 2 /\ ops[Len(ops)] = "mask" /\ ops[Len(ops) - 1] = "mask")
        => cur_text = prev_text

\* two results of parse_functions that list the same functions with the same
\* signatures and bodies of the same extent
SameFunctions(left, right) ==
    /\ left.ok = right.ok
    /\ left.ok =>
          /\ Len(left.funcs) = Len(right.funcs)
          /\ \A k \in 1..Len(left.funcs) :
                /\ left.funcs[k].receiver = right.funcs[k].receiver
                /\ left.funcs[k].full_name = right.funcs[k].full_name
                /\ left.funcs[k].params = right.funcs[k].params
                /\ left.funcs[k].returns = right.funcs[k].returns
                /\ Len(left.funcs[k].body) = Len(right.funcs[k].body)

\* C21: parse_functions gives the same function list, signatures and body
\* extents for a source as for that source with its comments masked.
C21_BoundariesFromScrubbedText ==
    parse_result.called =>
        SameFunctions(parse_result.result,
                      parse_functions_src(strip_comments_preserve_whitespace(go_source),
                                          strip_comments_preserve_whitespace(go_source)))

\* a block comment opens at offset i of the text, outside any literal and
\* comment, and is not closed before the end of the text
UnterminatedBlockCommentAt(text, i) ==
    /\ i + 1 <= Len(text)
    /\ text[i] = "/" /\ text[i + 1] = "*"
    /\ \A k \in 1..(i - 1) : text[k] \notin {DQ, SQ, BT, "/"}
    /\ \A k \in (i + 2)..(Len(text) - 1) : text[k] # "*" \/ text[k + 1] # "/"

\* C22: the comment mask replaces every character of an unterminated block
\* comment, from its opener to the last character of the input, by a space,
\* newlines kept.
C22_UnterminatedCommentMaskedToEnd ==
    LastOp = "strip" =>
        \A i \in 1..Len(prev_text) :
            UnterminatedBlockCommentAt(prev_text, i) =>
                \A k \in i..Len(prev_text) :
                    cur_text[k] = IF prev_text[k] = NL THEN NL ELSE SP

\* C11: the comment mask is idempotent: applied to its own output it returns
\* that output unchanged, also for unterminated block comments and literals.
C11_CommentMaskIdempotent ==
    (Len(ops) >= 2 /\ ops[Len(ops)] = "strip" /\ ops[Len(ops) - 1] = "strip")
        => cur_text = prev_text

\* an unterminated block comment was masked by the first pass and the
\* second pass left the masked text alone
C11_Witness ==
    /\ ops = <<"strip", "strip">>
    /\ Len(src_text) >= 3 /\ src_text[1] = "/" /\ src_text[2] = "*"
    /\ \A i \in 3..(Len(src_text) - 1) : src_text[i] # "*" \/ src_text[i + 1] # "/"
    /\ prev_text # src_text
    /\ cur_text = prev_text

====
